---- MODULE Spec2Model ----
(***************************************************************************)
(* A state-machine model of yft-micro-engine: the price cache, the         *)
(* settings cache, the position cache with its four inverted indices, the  *)
(* account cache and the MicroEngine facade with its dirty set.            *)
(*                                                                         *)
(* Numbers.  Every f64 of the source is a scaled integer:                  *)
(*   - a price is an integer number of 1/One units (One stands for 1.0);   *)
(*   - lots, contract size and leverage are whole numbers;                 *)
(*   - money (pl, commission, balance, margin, equity) is an integer       *)
(*     number of 1/MoneyOne units, MoneyOne being One * One, so that the   *)
(*     product of two prices is a whole number of money units.             *)
(* A division of the source is an integer division here, so a result that  *)
(* is not representable is rounded, as it is in f64.                       *)
(*                                                                         *)
(* Option<T> is a sequence of length at most one: None is <<>>, Some(v) is *)
(* <<v>>.  A HashMap is a function whose DOMAIN is its key set.            *)
(***************************************************************************)
EXTENDS Integers, Sequences, FiniteSets, TLC

VARIABLES
    accounts,                           \* MicroEngineAccountCache.accounts
    trader_index,                       \* MicroEngineAccountCache.trader_index
    positions,                          \* MicroEnginePositionCache.positions
    trader_id_index,                    \* PositionsCacheIndex.trader_id_index
    account_id_index,                   \* PositionsCacheIndex.account_id_index
    asset_pair_index,                   \* PositionsCacheIndex.asset_pair_index
    profit_price_subscription_indexes,  \* PositionsCacheIndex.profit_price_subscription_indexes
    accounts_mapping,                   \* TradingSettingsCache.accounts_mapping
    groups,                             \* TradingSettingsCache.groups
    prices,                             \* MicroEngineBidAskCache.prices
    base_quote_index,                   \* MicroEngineBidAskCache.base_quote_index
    quote_base_index,                   \* MicroEngineBidAskCache.quote_base_index
    updated_assets,                     \* MicroEngine.updated_assets (the dirty set)
    lastCall,                           \* the public operation that ran last, with its input
    result,                             \* what that operation returned
    calls,                              \* how many operations ran since initialize
    recalcs_since_tick                  \* the recalculations that ran since the last
                                        \* handle_new_price (or since initialize), up to 2

\* the engine's own state
engine_vars ==
    <<accounts, trader_index, positions, trader_id_index, account_id_index,
      asset_pair_index, profit_price_subscription_indexes, accounts_mapping,
      groups, prices, base_quote_index, quote_base_index, updated_assets>>

vars == <<engine_vars, lastCall, result, calls, recalcs_since_tick>>

(***************************************************************************)
(* Bounds of the model.                                                    *)
(***************************************************************************)
\* a tick's bid is One + d for some d in 0..MaxMove, its ask one unit above
MaxMove == 1
\* at most MaxCalls operations run after initialize
MaxCalls == 4

(***************************************************************************)
(* Program constants.                                                      *)
(***************************************************************************)
\* the f64 1.0 of a blank bidask, in price units
One == 10
\* digits used for pl when the group has no settings for the collateral
DefaultDigits == 2

(***************************************************************************)
(* Generic helpers: Option, HashMap, Vec.                                  *)
(***************************************************************************)
None == <<>>
Some(v) == <<v>>
IsSome(o) == o # <<>>
Unwrap(o) == o[1]

Range(s) == {s[i] : i \in DOMAIN s}

EmptyMap == <<>>
Has(m, k) == k \in DOMAIN m
Get(m, k) == IF k \in DOMAIN m THEN Some(m[k]) ELSE None
Put(m, k, v) == [x \in (DOMAIN m) \cup {k} |-> IF x = k THEN v ELSE m[x]]
Del(m, k) == [x \in (DOMAIN m) \ {k} |-> m[x]]

RECURSIVE Pow10(_)
Pow10(n) == IF n <= 0 THEN 1 ELSE 10 * Pow10(n - 1)

Abs(x) == IF x < 0 THEN -x ELSE x
Min(a, b) == IF a < b THEN a ELSE b

\* integer division that truncates toward zero, as f64 -> integer casts do
DivTrunc(n, d) == IF n >= 0 THEN n \div d ELSE -((-n) \div d)
\* n / d rounded half away from zero, as f64::round does
DivRound(n, d) == IF n >= 0 THEN (2 * n + d) \div (2 * d) ELSE -((2 * (-n) + d) \div (2 * d))

\* every ordering of a finite set, as a set of sequences: the iteration
\* order of a HashSet or HashMap is unspecified
RECURSIVE Orders(_)
Orders(S) ==
    IF S = {} THEN {<<>>}
    ELSE UNION {{<<x>> \o o : o \in Orders(S \ {x})} : x \in S}

(***************************************************************************)
(* bidask/dto.rs: MicroEngineBidask.                                       *)
(***************************************************************************)
Bidask(id, bid, ask, base, quote) ==
    [id |-> id, bid |-> bid, ask |-> ask, base |-> base, quote |-> quote]

create_blank == Bidask("", One, One, "", "")

get_open_price(b, is_buy) == IF is_buy THEN b.ask ELSE b.bid
get_close_price(b, is_buy) == IF is_buy THEN b.bid ELSE b.ask

get_bid_ask_with_markup(b, markup_bid, markup_ask) ==
    <<b.bid + markup_bid, b.ask + markup_ask>>

\* 1.0 / x in price units
Recip(x) == (One * One) \div x

\* the reciprocal legs under the base and quote of the original
reverse_unswapped(b) ==
    Bidask("REVERSE-" \o b.id, Recip(b.ask), Recip(b.bid), b.base, b.quote)

reverse(b) ==
    Bidask("REVERSE-" \o b.id, Recip(b.ask), Recip(b.bid), b.quote, b.base)

(***************************************************************************)
(* The instruments and collateral currencies the engine is built with.     *)
(***************************************************************************)
Instrument(id, base, quote) == [id |-> id, base |-> base, quote |-> quote]

Instruments == <<Instrument("EURUSD", "EUR", "USD"), Instrument("USDCAD", "USD", "CAD")>>
InstrumentIds == {i.id : i \in Range(Instruments)}
InstrumentById(id) == CHOOSE i \in Range(Instruments) : i.id = id

Collaterals == {"USD", "EUR", "CAD"}

(***************************************************************************)
(* bidask/mod.rs: generate_required_crosses, and the cross-rate solver     *)
(* (crate cross_calculations), modelled from its contract: a cross is two  *)
(* legs through a common currency, each leg an instrument taken directly   *)
(* or inverted; inversion swaps bid and ask, multiplication keeps bid*bid  *)
(* and ask*ask; the rate names its two leg ids.                            *)
(***************************************************************************)
contains_set == {i.base \o i.quote : i \in Range(Instruments)}

\* whether neither (x, c) nor (c, x) is an instrument, x not being c
NeedsCross(x, c) ==
    /\ x # c
    /\ (x \o c) \notin contains_set
    /\ (c \o x) \notin contains_set

generate_required_crosses ==
    {pr \in {<<i.base, c>> : i \in Range(Instruments), c \in Collaterals} :
        NeedsCross(pr[1], pr[2])}
    \cup
    {pr \in {<<i.quote, c>> : i \in Range(Instruments), c \in Collaterals} :
        NeedsCross(pr[1], pr[2])}

\* the legs that take currency `from` to currency `to`: an instrument, and
\* whether it is used inverted
Legs(from, to) ==
    {[id |-> i.id, inverted |-> FALSE] : i \in {j \in Range(Instruments) : j.base = from /\ j.quote = to}}
    \cup
    {[id |-> i.id, inverted |-> TRUE] : i \in {j \in Range(Instruments) : j.base = to /\ j.quote = from}}

Currencies == {i.base : i \in Range(Instruments)} \cup {i.quote : i \in Range(Instruments)}

\* the two-leg chains from base to quote through a common currency
CrossChains(base, quote) ==
    UNION {{[left |-> l, right |-> r] : l \in Legs(base, m), r \in Legs(m, quote)} :
           m \in Currencies}

\* CrossCalculationsCrossPairsMatrix::new: the required pairs that resolve
cross_matrix ==
    [pr \in {q \in generate_required_crosses : CrossChains(q[1], q[2]) # {}} |->
        CHOOSE ch \in CrossChains(pr[1], pr[2]) : TRUE]

LegPrice(pmap, leg) ==
    IF ~Has(pmap, leg.id) THEN None
    ELSE IF leg.inverted THEN Some(reverse(pmap[leg.id])) ELSE Some(pmap[leg.id])

\* the rate of two leg prices
CrossOf(l, r, base, quote, source) ==
    IF ~IsSome(l) \/ ~IsSome(r) THEN None
    ELSE Some([bid |-> (Unwrap(l).bid * Unwrap(r).bid) \div One,
               ask |-> (Unwrap(l).ask * Unwrap(r).ask) \div One,
               base |-> base, quote |-> quote, source |-> source])

ChainRate(ch, base, quote, pmap, with_source) ==
    CrossOf(LegPrice(pmap, ch.left), LegPrice(pmap, ch.right), base, quote,
            IF with_source THEN Some(<<ch.left.id, ch.right.id>>) ELSE None)

\* cross_calculations::core::get_cross_rate: Err is None
get_cross_rate(base, quote, pmap, with_source) ==
    IF <<base, quote>> \notin DOMAIN cross_matrix THEN None
    ELSE ChainRate(cross_matrix[<<base, quote>>], base, quote, pmap, with_source)

\* impl From<CrossCalculationsCrossRate> for MicroEngineBidask
BidaskFromCross(value) ==
    Bidask(IF IsSome(value.source)
              THEN Unwrap(value.source)[1] \o "-" \o Unwrap(value.source)[2]
              ELSE value.base,
           value.bid, value.ask, value.base, value.quote)

(***************************************************************************)
(* bidask/mod.rs: MicroEngineBidAskCache.  A cache value is the record     *)
(* [prices, base_quote_index, quote_base_index].                           *)
(***************************************************************************)
PriceCache(p, bq, qb) == [prices |-> p, base_quote_index |-> bq, quote_base_index |-> qb]

\* index.entry(a).or_default().insert(b, id)
IndexInsert(index, a, b, id) ==
    Put(index, a, Put(IF Has(index, a) THEN index[a] ELSE EmptyMap, b, id))

RECURSIVE BidAskCacheNew(_, _)
BidAskCacheNew(c, cached_prices) ==
    IF cached_prices = <<>> THEN c
    ELSE LET b == Head(cached_prices)
         IN BidAskCacheNew(
                PriceCache(Put(c.prices, b.id, b),
                           IndexInsert(c.base_quote_index, b.base, b.quote, b.id),
                           IndexInsert(c.quote_base_index, b.quote, b.base, b.id)),
                Tail(cached_prices))

get_by_id(c, id) == Get(c.prices, id)

get_base_quote(c, base, quote) ==
    IF Has(c.base_quote_index, base) /\ Has(c.base_quote_index[base], quote)
    THEN Get(c.prices, c.base_quote_index[base][quote])
    ELSE None

get_quote_base(c, quote, base) ==
    IF Has(c.quote_base_index, quote) /\ Has(c.quote_base_index[quote], base)
    THEN Get(c.prices, c.quote_base_index[quote][base])
    ELSE None

\* the last step of get_price: the cross rate, if it resolves
CrossPrice(cross) == IF IsSome(cross) THEN Some(BidaskFromCross(Unwrap(cross))) ELSE None

\* the reversed instrument, if quoted
ReversedPrice(rev) == IF IsSome(rev) THEN Some(reverse(Unwrap(rev))) ELSE None

FirstSome(a, b) == IF IsSome(a) THEN a ELSE b

get_price(c, base, quote) ==
    IF base = quote THEN Some(create_blank)
    ELSE FirstSome(get_base_quote(c, base, quote),
             FirstSome(ReversedPrice(get_quote_base(c, base, quote)),
                       CrossPrice(get_cross_rate(base, quote, c.prices, FALSE))))

\* handle_new entering a new id into base_quote_index only
handle_new_one_index(c, bid_ask) ==
    LET old_price == Get(c.prices, bid_ask.id)
    IN PriceCache(
           Put(c.prices, bid_ask.id, bid_ask),
           IF old_price = None
              THEN IndexInsert(c.base_quote_index, bid_ask.base, bid_ask.quote, bid_ask.id)
              ELSE c.base_quote_index,
           c.quote_base_index)

handle_new(c, bid_ask) ==
    LET old_price == Get(c.prices, bid_ask.id)
    IN PriceCache(
           Put(c.prices, bid_ask.id, bid_ask),
           IF old_price = None
              THEN IndexInsert(c.base_quote_index, bid_ask.base, bid_ask.quote, bid_ask.id)
              ELSE c.base_quote_index,
           IF old_price = None
              THEN IndexInsert(c.quote_base_index, bid_ask.quote, bid_ask.base, bid_ask.id)
              ELSE c.quote_base_index)

\* the three ways get_price_with_source finds a price, each Some(<<price, sources>>)
\* with sources an Option<Vec<String>>, or None
DirectWithSource(direct) ==
    IF IsSome(direct) THEN Some(<<Unwrap(direct), None>>) ELSE None

\* ReverseWithSource handing the stored price on as it is quoted
ReverseWithSourceUnturned(rev) ==
    IF IsSome(rev) THEN Some(<<Unwrap(rev), Some(<<Unwrap(rev).id>>)>>) ELSE None

ReverseWithSource(rev) ==
    IF IsSome(rev) THEN Some(<<reverse(Unwrap(rev)), Some(<<Unwrap(rev).id>>)>>) ELSE None

CrossWithSource(cross) ==
    IF IsSome(cross)
    THEN Some(<<BidaskFromCross(Unwrap(cross)),
                Some(<<Unwrap(Unwrap(cross).source)[1], Unwrap(Unwrap(cross).source)[2]>>)>>)
    ELSE None

get_price_with_source(c, base, quote) ==
    IF base = quote THEN Some(<<create_blank, None>>)
    ELSE FirstSome(DirectWithSource(get_base_quote(c, base, quote)),
             FirstSome(ReverseWithSource(get_quote_base(c, base, quote)),
                       CrossWithSource(get_cross_rate(base, quote, c.prices, TRUE))))

(***************************************************************************)
(* settings/mod.rs: spread shaping.  digits is the number of decimals of   *)
(* the instrument; a pip is 10^-digits, PipUnits(digits) price units.      *)
(***************************************************************************)
MoneyOne == One * One

\* price units per pip: One / 10^digits
PipUnits(digits) == One \div Pow10(digits)

\* Decimal::round_dp_with_strategy(digits, ToZero) of a price difference
TruncDp(x, digits) == DivTrunc(x, PipUnits(digits)) * PipUnits(digits)

calculate_spread(bid, ask, digits) == TruncDp(ask - bid, digits)

\* the clamp without the pip of an odd difference
calculate_max_spread_even_only(bid, ask, max_spread, digits) ==
    LET spread == calculate_spread(bid, ask, digits)
        spread_diff == TruncDp(spread - max_spread, digits)
        spread_rounded == TruncDp(DivTrunc(spread_diff, 2), digits)
    IN IF spread > max_spread
       THEN <<bid + spread_rounded, ask - spread_rounded>>
       ELSE <<bid, ask>>

calculate_max_spread(bid, ask, max_spread, digits) ==
    LET spread == calculate_spread(bid, ask, digits)
        pip == PipUnits(digits)
        spread_diff == TruncDp(spread - max_spread, digits)
        spread_rounded == TruncDp(DivTrunc(spread_diff, 2), digits)
        is_odd == (DivTrunc(spread_diff, pip) % 2) = 0
    IN IF spread > max_spread
       THEN IF is_odd THEN <<bid + spread_rounded, ask - spread_rounded>>
            ELSE <<bid + spread_rounded + pip, ask - spread_rounded>>
       ELSE <<bid, ask>>

\* the clamp with the pip of an odd difference given to ask
calculate_min_spread_pip_to_ask(bid, ask, min_spread, digits) ==
    LET spread == calculate_spread(bid, ask, digits)
        pip == PipUnits(digits)
        spread_diff == TruncDp(min_spread - spread, digits)
        spread_rounded == TruncDp(DivTrunc(spread_diff, 2), digits)
        is_odd == (DivTrunc(spread_diff, pip) % 2) = 0
    IN IF spread < min_spread
       THEN IF is_odd THEN <<bid - spread_rounded, ask + spread_rounded>>
            ELSE <<bid - spread_rounded, ask + (spread_rounded + pip)>>
       ELSE <<bid, ask>>

calculate_min_spread(bid, ask, min_spread, digits) ==
    LET spread == calculate_spread(bid, ask, digits)
        pip == PipUnits(digits)
        spread_diff == TruncDp(min_spread - spread, digits)
        spread_rounded == TruncDp(DivTrunc(spread_diff, 2), digits)
        is_odd == (DivTrunc(spread_diff, pip) % 2) = 0
    IN IF spread < min_spread
       THEN IF is_odd THEN <<bid - spread_rounded, ask + spread_rounded>>
            ELSE <<bid - (spread_rounded + pip), ask + spread_rounded>>
       ELSE <<bid, ask>>

\* the upper bound not enforced
MaxSpreadStepSkipped(m, pr, digits) == pr

\* lines 117-119 and 121-123 of calculate_bidask; pr is <<bid, ask>>
MaxSpreadStep(m, pr, digits) ==
    IF IsSome(m.max_spread)
    THEN calculate_max_spread(pr[1], pr[2], Unwrap(m.max_spread), digits) ELSE pr

MinSpreadStep(m, pr, digits) ==
    IF IsSome(m.min_spread)
    THEN calculate_min_spread(pr[1], pr[2], Unwrap(m.min_spread), digits) ELSE pr

MarkupStep(m, bidask) == get_bid_ask_with_markup(bidask, m.markup_bid, m.markup_ask)

\* TradingGroupInstrumentSettings::calculate_bidask
calculate_bidask(s, bidask) ==
    IF ~IsSome(s.markup_settings) THEN <<bidask.bid, bidask.ask>>
    ELSE MinSpreadStep(Unwrap(s.markup_settings),
                       MaxSpreadStep(Unwrap(s.markup_settings),
                                     MarkupStep(Unwrap(s.markup_settings), bidask),
                                     s.digits),
                       s.digits)

\* apply_max_spread and apply_min_spread: the clamps written into the bidask
apply_max_spread(bid_ask, max_spread, digits) ==
    LET spread == calculate_spread(bid_ask.bid, bid_ask.ask, digits)
        pip == PipUnits(digits)
        spread_diff == TruncDp(spread - max_spread, digits)
        spread_rounded == TruncDp(DivTrunc(spread_diff, 2), digits)
        is_odd == (DivTrunc(spread_diff, pip) % 2) = 0
    IN IF spread > max_spread
       THEN IF is_odd
            THEN [bid_ask EXCEPT !.bid = @ + spread_rounded, !.ask = @ - spread_rounded]
            ELSE [bid_ask EXCEPT !.bid = @ + (spread_rounded + pip),
                                 !.ask = @ - spread_rounded]
       ELSE bid_ask

apply_min_spread(bid_ask, min_spread, digits) ==
    LET spread == calculate_spread(bid_ask.bid, bid_ask.ask, digits)
        pip == PipUnits(digits)
        spread_diff == TruncDp(min_spread - spread, digits)
        spread_rounded == TruncDp(DivTrunc(spread_diff, 2), digits)
        is_odd == (DivTrunc(spread_diff, pip) % 2) = 0
    IN IF spread < min_spread
       THEN IF is_odd
            THEN [bid_ask EXCEPT !.bid = @ - spread_rounded, !.ask = @ + spread_rounded]
            ELSE [bid_ask EXCEPT !.bid = @ - (spread_rounded + pip),
                                 !.ask = @ + spread_rounded]
       ELSE bid_ask

\* MicroEngineBidask::apply_markup
apply_markup(b, markup_bid, markup_ask) ==
    [b EXCEPT !.bid = get_bid_ask_with_markup(b, markup_bid, markup_ask)[1],
              !.ask = get_bid_ask_with_markup(b, markup_bid, markup_ask)[2]]

\* lines 132-134 and 136-138 of mutate_bidask
MaxSpreadApplied(m, b, digits) ==
    IF IsSome(m.max_spread) THEN apply_max_spread(b, Unwrap(m.max_spread), digits) ELSE b

MinSpreadApplied(m, b, digits) ==
    IF IsSome(m.min_spread) THEN apply_min_spread(b, Unwrap(m.min_spread), digits) ELSE b

\* the lower bound enforced before the upper one
mutate_bidask_min_first(s, bidask) ==
    IF ~IsSome(s.markup_settings) THEN bidask
    ELSE MaxSpreadApplied(Unwrap(s.markup_settings),
                          MinSpreadApplied(Unwrap(s.markup_settings),
                                           apply_markup(bidask,
                                               Unwrap(s.markup_settings).markup_bid,
                                               Unwrap(s.markup_settings).markup_ask),
                                           s.digits),
                          s.digits)

\* TradingGroupInstrumentSettings::mutate_bidask: the bidask it leaves
mutate_bidask(s, bidask) ==
    IF ~IsSome(s.markup_settings) THEN bidask
    ELSE MinSpreadApplied(Unwrap(s.markup_settings),
                          MaxSpreadApplied(Unwrap(s.markup_settings),
                                           apply_markup(bidask,
                                               Unwrap(s.markup_settings).markup_bid,
                                               Unwrap(s.markup_settings).markup_ask),
                                           s.digits),
                          s.digits)

(***************************************************************************)
(* settings/mod.rs: TradingSettingsCache.                                  *)
(***************************************************************************)
\* TradingSettingsCache::new: the mapping of every account, the groups by id
RECURSIVE GroupsNew(_, _)
GroupsNew(g, settings) ==
    IF settings = <<>> THEN g
    ELSE GroupsNew(Put(g, Head(settings).id, Head(settings)), Tail(settings))

SettingsMappingNew(accs) == [a \in DOMAIN accs |-> accs[a].trading_group]

resolve_by_account(mapping, grps, account) ==
    IF ~Has(mapping, account) THEN None ELSE Get(grps, mapping[account])

account_updated(mapping, account) == Put(mapping, account.id, account.trading_group)

insert_or_replace_settings(grps, settings) == Put(grps, settings.id, settings)

(***************************************************************************)
(* lib.rs: round_float_to_digits, on money.                                *)
(***************************************************************************)
round_float_to_digits(value, digits) ==
    LET step == MoneyOne \div Pow10(digits)
    IN IF step <= 1 THEN value ELSE DivRound(value, step) * step

(***************************************************************************)
(* positions/position.rs: MicroEnginePosition.                             *)
(***************************************************************************)
get_gross_pl(p) == p.pl - p.commission + p.swaps_sum

\* ComputePl converting a gain at the ask and a loss at the bid
ComputePlLegsSwapped(p, settings) ==
    LET open_price == get_open_price(p.open_bidask, p.is_buy)
        close_price == get_close_price(p.active_bidask, p.is_buy)
        diff == IF p.is_buy THEN close_price - open_price ELSE open_price - close_price
        profit_price == IF diff >= 0 THEN p.profit_bidask.ask ELSE p.profit_bidask.bid
        digits == IF Has(settings.collaterals, p.collateral)
                     THEN settings.collaterals[p.collateral].digits
                     ELSE DefaultDigits
    IN [p EXCEPT !.pl = round_float_to_digits(
                            diff * p.lots_amount * p.contract_size * profit_price, digits)]

\* ComputePl taking close - open for a sell as for a buy
ComputePlAsBuy(p, settings) ==
    LET diff == get_close_price(p.active_bidask, p.is_buy)
                    - get_open_price(p.open_bidask, p.is_buy)
        profit_price == IF diff >= 0 THEN p.profit_bidask.bid ELSE p.profit_bidask.ask
        digits == IF Has(settings.collaterals, p.collateral)
                     THEN settings.collaterals[p.collateral].digits
                     ELSE DefaultDigits
    IN [p EXCEPT !.pl = round_float_to_digits(
                            diff * p.lots_amount * p.contract_size * profit_price, digits)]

\* the tail of update_bidask (lines 110-132): pl from the three snapshots
ComputePl(p, settings) ==
    LET open_price == get_open_price(p.open_bidask, p.is_buy)
        close_price == get_close_price(p.active_bidask, p.is_buy)
        diff == IF p.is_buy THEN close_price - open_price ELSE open_price - close_price
        profit_price == IF diff >= 0 THEN p.profit_bidask.bid ELSE p.profit_bidask.ask
        raw_pl == diff * p.lots_amount * p.contract_size * profit_price
        digits == IF Has(settings.collaterals, p.collateral)
                     THEN settings.collaterals[p.collateral].digits
                     ELSE DefaultDigits
    IN [p EXCEPT !.pl = round_float_to_digits(raw_pl, digits)]

\* a price with its bid and ask replaced by the pair n
WithPrices(price, n) == [price EXCEPT !.bid = n[1], !.ask = n[2]]

\* the settings looked up under the id of the reversed price
ShapedByReverseId(settings, price) ==
    IF Has(settings.instruments, "REVERSE-" \o price.id)
    THEN WithPrices(price,
                    calculate_bidask(settings.instruments["REVERSE-" \o price.id], price))
    ELSE price

\* a price with the markup and spread settings of its id applied, if the
\* group has settings for that id
Shaped(settings, price) ==
    IF Has(settings.instruments, price.id)
    THEN WithPrices(price, calculate_bidask(settings.instruments[price.id], price))
    ELSE price

\* lines 90-93: the marked-up tick, reversed when it is quoted (collateral, quote)
ReversedIfInverse(p, bidask, marked) ==
    IF bidask.base = p.collateral /\ bidask.quote = p.quote THEN reverse(marked) ELSE marked

\* lines 97-106: the conversion price looked up in the price cache
LookedUp(p, looked, settings) ==
    IF ~IsSome(looked) THEN p.profit_bidask ELSE Shaped(settings, Unwrap(looked))

\* the tick reversed first and the settings of its instrument applied after
ProfitAfterHitReversedFirst(p, bidask, c, settings) ==
    IF bidask.base = p.collateral /\ bidask.quote = p.quote
    THEN WithPrices(reverse(bidask),
                    calculate_bidask(settings.instruments[bidask.id], reverse(bidask)))
    ELSE IF bidask.base = p.quote /\ bidask.quote = p.collateral
         THEN Shaped(settings, bidask)
         ELSE LookedUp(p, get_price(c, p.quote, p.collateral), settings)

\* lines 73-108: the conversion price after a tick of a subscribed instrument
ProfitAfterHit(p, bidask, c, settings) ==
    IF \/ (bidask.base = p.quote /\ bidask.quote = p.collateral)
       \/ (bidask.base = p.collateral /\ bidask.quote = p.quote)
    THEN ReversedIfInverse(p, bidask, Shaped(settings, bidask))
    ELSE LookedUp(p, get_price(c, p.quote, p.collateral), settings)

\* WithActive taking the tick as it came, without markup and spread
WithActiveRaw(p, bidask, new) ==
    IF p.asset_pair = bidask.id
    THEN [p EXCEPT !.active_bidask.bid = bidask.bid, !.active_bidask.ask = bidask.ask]
    ELSE p

\* WithActive writing the shaped pair to open_bidask as well
WithActiveAndOpen(p, bidask, new) ==
    IF p.asset_pair = bidask.id
    THEN [p EXCEPT !.active_bidask.bid = new[1], !.active_bidask.ask = new[2],
                   !.open_bidask.bid = new[1], !.open_bidask.ask = new[2]]
    ELSE p

\* WithActive taking the pair of any tick, of the position's instrument or not
WithActiveOfAnyTick(p, bidask, new) ==
    [p EXCEPT !.active_bidask.bid = new[1], !.active_bidask.ask = new[2]]

\* lines 55-62: active_bidask takes the shaped pair new
WithActive(p, bidask, new) ==
    IF p.asset_pair = bidask.id
    THEN [p EXCEPT !.active_bidask.bid = new[1], !.active_bidask.ask = new[2]]
    ELSE p

\* lines 64-108: profit_bidask after the tick
WithProfit(p1, p, bidask, c, settings) ==
    IF bidask.id \in Range(p.profit_price_assets_subscriptions)
    THEN [p1 EXCEPT !.profit_bidask = ProfitAfterHit(p, bidask, c, settings)]
    ELSE p1

update_bidask(p, bidask, c, settings) ==
    IF ~Has(settings.instruments, bidask.id) THEN p
    ELSE ComputePl(
             WithProfit(
                 WithActive(p, bidask, calculate_bidask(settings.instruments[bidask.id], bidask)),
                 p, bidask, c, settings),
             settings)

\* MicroEnginePosition::update_profit_bidask_from_cache is called by the
\* position cache and not defined in the sources at hand: by the comment at
\* its call site it takes profit_bidask from the raw cache price, no markup
WithProfitPrice(p, looked) ==
    IF IsSome(looked) THEN [p EXCEPT !.profit_bidask = Unwrap(looked)] ELSE p

update_profit_bidask_from_cache(p, c) ==
    WithProfitPrice(p, get_price(c, p.quote, p.collateral))

\* MicroEnginePosition::recalculate_pl, likewise: pl from the snapshots
recalculate_pl(p, settings) == ComputePl(p, settings)

(***************************************************************************)
(* positions/positions_cache_index.rs: PositionsCacheIndex.  An index      *)
(* value is the record of the four maps, key -> set of position ids.       *)
(***************************************************************************)
PositionsIndex(t, a, ap, pp) ==
    [trader_id_index |-> t, account_id_index |-> a, asset_pair_index |-> ap,
     profit_price_subscription_indexes |-> pp]

\* index.entry(key).or_default().insert(id)
AddToIndex(index, key, id) ==
    Put(index, key, (IF Has(index, key) THEN index[key] ELSE {}) \cup {id})

RECURSIVE AddAllToIndex(_, _, _)
AddAllToIndex(index, keys, id) ==
    IF keys = <<>> THEN index
    ELSE AddAllToIndex(AddToIndex(index, Head(keys), id), Tail(keys), id)

add_index(ix, position) ==
    PositionsIndex(
        AddToIndex(ix.trader_id_index, position.trader_id, position.id),
        AddToIndex(ix.account_id_index, position.account_id, position.id),
        AddToIndex(ix.asset_pair_index, position.asset_pair, position.id),
        AddAllToIndex(ix.profit_price_subscription_indexes,
                      position.profit_price_assets_subscriptions, position.id))

\* the id taken out of its set and the key kept, whatever is left of the set
remove_from_index_keeping_key(index, key, id) ==
    IF ~Has(index, key) THEN index
    ELSE Put(index, key, index[key] \ {id})

remove_from_index(index, key, id) ==
    IF ~Has(index, key) THEN index
    ELSE IF index[key] \ {id} = {} THEN Del(index, key)
    ELSE Put(index, key, index[key] \ {id})

RECURSIVE RemoveAllFromIndex(_, _, _)
RemoveAllFromIndex(index, keys, id) ==
    IF keys = <<>> THEN index
    ELSE RemoveAllFromIndex(remove_from_index(index, Head(keys), id), Tail(keys), id)

remove_indexes(ix, position) ==
    PositionsIndex(
        remove_from_index(ix.trader_id_index, position.trader_id, position.id),
        remove_from_index(ix.account_id_index, position.account_id, position.id),
        remove_from_index(ix.asset_pair_index, position.asset_pair, position.id),
        RemoveAllFromIndex(ix.profit_price_subscription_indexes,
                           position.profit_price_assets_subscriptions, position.id))

(***************************************************************************)
(* positions/positions_cache.rs: MicroEnginePositionCache.  A cache value  *)
(* is the record [indexes, positions].                                     *)
(***************************************************************************)
PositionCache(ix, ps) == [indexes |-> ix, positions |-> ps]

EmptyPositionCache ==
    PositionCache(PositionsIndex(EmptyMap, EmptyMap, EmptyMap, EmptyMap), EmptyMap)

add_position(pc, position) ==
    PositionCache(add_index(pc.indexes, position), Put(pc.positions, position.id, position))

\* <<the cache afterwards, the removed position if any>>
remove_position(pc, id) ==
    IF ~Has(pc.positions, id) THEN <<pc, None>>
    ELSE <<PositionCache(remove_indexes(pc.indexes, pc.positions[id]), Del(pc.positions, id)),
           Some(pc.positions[id])>>

\* sources.unwrap_or_default()
UnwrapOrDefault(sources) == IF IsSome(sources) THEN Unwrap(sources) ELSE <<>>

\* lines 33-39: the subscriptions of a loaded position, found being what
\* get_price_with_source returned
LoadedSubscriptions(position, found) ==
    IF position.quote # position.collateral /\ IsSome(found)
    THEN UnwrapOrDefault(Unwrap(found)[2])
    ELSE position.profit_price_assets_subscriptions

WithSubscriptions(position, subs) ==
    [position EXCEPT !.profit_price_assets_subscriptions = subs]

RECURSIVE PositionCacheNew(_, _, _)
PositionCacheNew(pc, c, input) ==
    IF input = <<>> THEN pc
    ELSE PositionCacheNew(
             add_position(pc,
                 WithSubscriptions(Head(input),
                     LoadedSubscriptions(Head(input),
                         get_price_with_source(c, Head(input).quote, Head(input).collateral)))),
             c, Tail(input))

\* the stored positions of the ids indexed under the account
get_account_positions(pc, account_id) ==
    IF ~Has(pc.indexes.account_id_index, account_id) THEN {}
    ELSE {pc.positions[x] : x \in pc.indexes.account_id_index[account_id] \cap DOMAIN pc.positions}

\* a set iterated in the order `ord` lists its elements
InOrder(S, ord) == SelectSeq(ord, LAMBDA x : x \in S)

PositionUpdate(p) ==
    [account_id |-> p.account_id, position_id |-> p.id, gross_pl |-> get_gross_pl(p)]

\* lines 144-147: the conversion price from the cache, then pl again
Converted(p1, c, settings) ==
    IF p1.quote # p1.collateral
    THEN recalculate_pl(update_profit_bidask_from_cache(p1, c), settings)
    ELSE p1

\* lines 138-147: a touched position after the tick
Recalculated(position, target_price, c, settings) ==
    Converted(update_bidask(position, target_price, c, settings), c, settings)

\* lines 149-155: the position is stored and its update record pushed
Pushed(st, p2) ==
    [st EXCEPT !.pc.positions = Put(st.pc.positions, p2.id, p2),
               !.updated_positions =
                   Some(UnwrapOrDefault(st.updated_positions) \o <<PositionUpdate(p2)>>)]

RecalcResolved(st, position, gs, target_price) ==
    IF ~IsSome(gs) THEN st
    ELSE Pushed(st, Recalculated(position, target_price, st.c, Unwrap(gs)))

\* lines 130-156: one touched position id; st is [pc, c, updated_positions]
RecalcOne(st, position_id, target_price, mapping, grps) ==
    IF ~Has(st.pc.positions, position_id) THEN st
    ELSE RecalcResolved(st, st.pc.positions[position_id],
             resolve_by_account(mapping, grps, st.pc.positions[position_id].account_id),
             target_price)

RECURSIVE RecalcMany(_, _, _, _, _)
RecalcMany(st, ids, target_price, mapping, grps) ==
    IF ids = <<>> THEN st
    ELSE RecalcMany(RecalcOne(st, Head(ids), target_price, mapping, grps),
                    Tail(ids), target_price, mapping, grps)

\* lines 118-128: the ids touched by a price id, the asset_pair set first
TouchedList(ix, price_id, ord) ==
    (IF Has(ix.asset_pair_index, price_id)
        THEN InOrder(ix.asset_pair_index[price_id], ord) ELSE <<>>)
    \o
    (IF Has(ix.profit_price_subscription_indexes, price_id)
        THEN InOrder(ix.profit_price_subscription_indexes[price_id], ord) ELSE <<>>)

\* lines 111-157: one price id, target being its price in the cache
RecalcPrice(st, price_id, target, ord, mapping, grps) ==
    IF ~IsSome(target) THEN st
    ELSE RecalcMany([st EXCEPT !.c = handle_new(st.c, Unwrap(target))],
                    TouchedList(st.pc.indexes, price_id, ord),
                    Unwrap(target), mapping, grps)

RECURSIVE RecalcPrices(_, _, _, _, _)
RecalcPrices(st, updated_prices, ord, mapping, grps) ==
    IF updated_prices = <<>> THEN st
    ELSE RecalcPrices(
             RecalcPrice(st, Head(updated_prices), get_by_id(st.c, Head(updated_prices)),
                         ord, mapping, grps),
             Tail(updated_prices), ord, mapping, grps)

\* [pc, c, updated_positions]: the caches afterwards and the Option<Vec> returned
recalculate_positions_pl(pc, updated_prices, c, mapping, grps, ord) ==
    RecalcPrices([pc |-> pc, c |-> c, updated_positions |-> None],
                 updated_prices, ord, mapping, grps)

RecalcAllResolved(pc, position, gs, price, c) ==
    IF ~IsSome(gs) \/ ~IsSome(price) THEN pc
    ELSE [pc EXCEPT !.positions =
             Put(pc.positions, position.id, Recalculated(position, Unwrap(price), c, Unwrap(gs)))]

\* lines 169-199: one position of the full recalculation
RecalcAllOne(pc, position_id, c, mapping, grps) ==
    RecalcAllResolved(pc, pc.positions[position_id],
        resolve_by_account(mapping, grps, pc.positions[position_id].account_id),
        get_by_id(c, pc.positions[position_id].asset_pair), c)

RECURSIVE RecalcAllMany(_, _, _, _, _)
RecalcAllMany(pc, ids, c, mapping, grps) ==
    IF ids = <<>> THEN pc
    ELSE RecalcAllMany(RecalcAllOne(pc, Head(ids), c, mapping, grps), Tail(ids), c, mapping, grps)

\* each position is recalculated from its own fields and the caches, so the
\* iteration order of the map does not show in the result
recalculate_all_positions(pc, c, mapping, grps) ==
    RecalcAllMany(pc, CHOOSE o \in Orders(DOMAIN pc.positions) : TRUE, c, mapping, grps)

(***************************************************************************)
(* accounts/account.rs: MicroEngineAccount.                                *)
(***************************************************************************)
\* the sum of the values of a function with a finite domain
RECURSIVE SumFn(_)
SumFn(f) ==
    IF DOMAIN f = {} THEN 0
    ELSE LET x == CHOOSE y \in DOMAIN f : TRUE
         IN f[x] + SumFn([y \in (DOMAIN f) \ {x} |-> f[y]])

\* the margin under the leverage of the account, whatever the instrument allows
calculate_specific_instrument_margin_account_leverage(ps, account, hedge_coef, settings) ==
    IF ps = {} THEN <<0, 0>>
    ELSE
    LET total_gross_pl == SumFn([p \in ps |-> get_gross_pl(p)])
        leverage == account.leverage
        buys == {p \in ps : p.is_buy}
        sells == {p \in ps : ~p.is_buy}
        margin_price(p) == get_open_price(p.margin_bidask, p.is_buy)
        buy_margin_price_sum == SumFn([p \in buys |-> margin_price(p) * p.lots_amount])
        sell_margin_price_sum == SumFn([p \in sells |-> margin_price(p) * p.lots_amount])
        buy_volume == SumFn([p \in buys |-> p.lots_amount])
        sell_volume == SumFn([p \in sells |-> p.lots_amount])
        contract_size_sum == SumFn([p \in ps |-> p.contract_size])
        positions_len == Cardinality(ps)
        hedged_volume == Min(buy_volume, sell_volume)
        hedged_margin_coef == IF IsSome(hedge_coef) THEN Unwrap(hedge_coef) ELSE One
        \* hedged_volume * contract_size * hedged_margin_price / leverage * coef
        hedged_margin ==
            IF buy_volume > 0 /\ sell_volume > 0
            THEN (hedged_volume * contract_size_sum
                    * (buy_margin_price_sum + sell_margin_price_sum) * hedged_margin_coef)
                 \div (positions_len * (buy_volume + sell_volume) * leverage)
            ELSE 0
        not_hedged_volume == Abs(buy_volume - sell_volume)
        \* not_hedged_volume * contract_size * not_hedged_margin_price / leverage
        not_hedge_margin ==
            IF buy_volume > sell_volume
            THEN (not_hedged_volume * contract_size_sum * buy_margin_price_sum * One)
                 \div (positions_len * buy_volume * leverage)
            ELSE (not_hedged_volume * contract_size_sum * sell_margin_price_sum * One)
                 \div (positions_len * sell_volume * leverage)
    IN <<hedged_margin + not_hedge_margin, total_gross_pl>>

\* <<margin, gross>> of the positions of one instrument; a hedge
\* coefficient is in 1/One units like a price
calculate_specific_instrument_margin_and_gross_pl(ps, account, hedge_coef, settings) ==
    IF ps = {} THEN <<0, 0>>
    ELSE
    LET total_gross_pl == SumFn([p \in ps |-> get_gross_pl(p)])
        leverage == IF IsSome(settings.max_leverage)
                       THEN Min(Unwrap(settings.max_leverage), account.leverage)
                       ELSE account.leverage
        buys == {p \in ps : p.is_buy}
        sells == {p \in ps : ~p.is_buy}
        margin_price(p) == get_open_price(p.margin_bidask, p.is_buy)
        buy_margin_price_sum == SumFn([p \in buys |-> margin_price(p) * p.lots_amount])
        sell_margin_price_sum == SumFn([p \in sells |-> margin_price(p) * p.lots_amount])
        buy_volume == SumFn([p \in buys |-> p.lots_amount])
        sell_volume == SumFn([p \in sells |-> p.lots_amount])
        contract_size_sum == SumFn([p \in ps |-> p.contract_size])
        positions_len == Cardinality(ps)
        hedged_volume == Min(buy_volume, sell_volume)
        hedged_margin_coef == IF IsSome(hedge_coef) THEN Unwrap(hedge_coef) ELSE One
        \* hedged_volume * contract_size * hedged_margin_price / leverage * coef
        hedged_margin ==
            IF buy_volume > 0 /\ sell_volume > 0
            THEN (hedged_volume * contract_size_sum
                    * (buy_margin_price_sum + sell_margin_price_sum) * hedged_margin_coef)
                 \div (positions_len * (buy_volume + sell_volume) * leverage)
            ELSE 0
        not_hedged_volume == Abs(buy_volume - sell_volume)
        \* not_hedged_volume * contract_size * not_hedged_margin_price / leverage
        not_hedge_margin ==
            IF buy_volume > sell_volume
            THEN (not_hedged_volume * contract_size_sum * buy_margin_price_sum * One)
                 \div (positions_len * buy_volume * leverage)
            ELSE (not_hedged_volume * contract_size_sum * sell_margin_price_sum * One)
                 \div (positions_len * sell_volume * leverage)
    IN <<hedged_margin + not_hedge_margin, total_gross_pl>>

\* <<total margin, total gross>>: only the instruments the group has settings for
calculate_margin_and_gross_pl(account, account_positions, hedge_coef, settings) ==
    LET assets == {p.asset_pair : p \in account_positions} \cap DOMAIN settings.instruments
        of(asset) == calculate_specific_instrument_margin_and_gross_pl(
                         {p \in account_positions : p.asset_pair = asset},
                         account, hedge_coef, settings.instruments[asset])
    IN <<SumFn([a \in assets |-> of(a)[1]]), SumFn([a \in assets |-> of(a)[2]])>>

AccountUpdate(a, gross_pl) ==
    [account_id |-> a.id, margin |-> a.margin, equity |-> a.equity,
     free_margin |-> a.free_margin, margin_level |-> a.margin_level,
     total_gross |-> gross_pl]

\* lines 43-55: the fields assigned from the margin and the gross pl
WithMarginAndEquity(account, margin, equity) ==
    [account EXCEPT
        !.margin = margin,
        !.equity = equity,
        !.free_margin = equity - margin,
        !.margin_level = IF margin <= 0 THEN 0 ELSE DivTrunc(equity * 100, margin)]

\* mg is <<margin, gross_pl>>
AccountRecalculated(account, mg) ==
    <<WithMarginAndEquity(account, mg[1], account.balance + mg[2]),
      AccountUpdate(WithMarginAndEquity(account, mg[1], account.balance + mg[2]), mg[2])>>

\* <<the account afterwards, the update record>>
AccountRecalculate(account, account_positions, settings) ==
    AccountRecalculated(account,
        calculate_margin_and_gross_pl(account, account_positions, settings.hedge_coef, settings))

(***************************************************************************)
(* accounts/account_cache.rs: MicroEngineAccountCache.  A cache value is   *)
(* the record [trader_index, accounts].                                    *)
(***************************************************************************)
AccountCache(ti, accs) == [trader_index |-> ti, accounts |-> accs]

RECURSIVE AccountCacheNew(_, _)
AccountCacheNew(ac, input) ==
    IF input = <<>> THEN ac
    ELSE AccountCacheNew(
             AccountCache(AddToIndex(ac.trader_index, Head(input).trader_id, Head(input).id),
                          Put(ac.accounts, Head(input).id, Head(input))),
             Tail(input))

\* r is what MicroEngineAccount::recalculate_account_data gave
AccountStored(ac, account_id, r) ==
    <<[ac EXCEPT !.accounts = Put(ac.accounts, account_id, r[1])], Some(r[2])>>

AccountDataFor(ac, account_settings, pc, account_id) ==
    IF ~IsSome(account_settings) \/ ~Has(ac.accounts, account_id) THEN <<ac, None>>
    ELSE AccountStored(ac, account_id,
             AccountRecalculate(ac.accounts[account_id],
                                get_account_positions(pc, account_id),
                                Unwrap(account_settings)))

\* <<the cache afterwards, Option<update>>>
recalculate_account_data(ac, mapping, grps, pc, account_id) ==
    AccountDataFor(ac, resolve_by_account(mapping, grps, account_id), pc, account_id)

\* filter_map: the update of one account joins the list if there is one
Collected(done, one) ==
    <<one[1], done[2] \o (IF IsSome(one[2]) THEN <<Unwrap(one[2])>> ELSE <<>>)>>

\* done is <<the cache so far, the updates so far>>
RECURSIVE AccountsDataFrom(_, _, _, _, _)
AccountsDataFrom(done, mapping, grps, pc, updated_accounts) ==
    IF updated_accounts = <<>> THEN done
    ELSE AccountsDataFrom(
             Collected(done,
                 recalculate_account_data(done[1], mapping, grps, pc, Head(updated_accounts))),
             mapping, grps, pc, Tail(updated_accounts))

\* <<the cache afterwards, the updates>>, one round per element of the list
recalculate_accounts_data(ac, mapping, grps, pc, updated_accounts) ==
    AccountsDataFrom(<<ac, <<>>>>, mapping, grps, pc, updated_accounts)

\* every account is recalculated from its own fields and the other caches,
\* so the iteration order of the map does not show in the result
recalculate_all_accounts(ac, mapping, grps, pc) ==
    recalculate_accounts_data(ac, mapping, grps, pc,
                              CHOOSE o \in Orders(DOMAIN ac.accounts) : TRUE)[1]

\* AccountInserted storing the account as it was given, not as recalculated
AccountInsertedAsGiven(ac, account, mapping1, r) ==
    [ac |-> AccountCache(AddToIndex(ac.trader_index, account.trader_id, account.id),
                         Put(ac.accounts, account.id, account)),
     mapping |-> mapping1,
     result |-> <<"Ok", r[2]>>]

\* lines 133-147: the recalculated account is stored and indexed
AccountInserted(ac, account, mapping1, r) ==
    [ac |-> AccountCache(AddToIndex(ac.trader_index, account.trader_id, account.id),
                         Put(ac.accounts, account.id, r[1])),
     mapping |-> mapping1,
     result |-> <<"Ok", r[2]>>]

InsertResolved(ac, account, mapping1, settings, pc) ==
    IF ~IsSome(settings)
    THEN [ac |-> ac, mapping |-> mapping1,
          result |-> <<"AccountSettingsNotFound", account.trading_group>>]
    ELSE AccountInserted(ac, account, mapping1,
             AccountRecalculate(account, get_account_positions(pc, account.id),
                                Unwrap(settings)))

InsertMapped(ac, account, mapping1, grps, pc) ==
    InsertResolved(ac, account, mapping1, resolve_by_account(mapping1, grps, account.id), pc)

\* [ac, mapping, result]: result is <<"Ok", update>> or <<"AccountSettingsNotFound", group>>
insert_or_update_account(ac, account, mapping, grps, pc) ==
    InsertMapped(ac, account, account_updated(mapping, account), grps, pc)

(***************************************************************************)
(* The inputs the operations are called with.                              *)
(***************************************************************************)
AccountIds == {"A1", "A2"}
TraderIds == {"T1", "T2"}
PositionIds == {"P1", "P2"}

\* every tick of the known instruments, on the price grid
Ticks ==
    {Bidask(i.id, One + d, One + d + 1, i.base, i.quote) :
        i \in Range(Instruments), d \in 0..MaxMove}

\* the batches: one tick, or a tick at One followed by any tick
Batches ==
    {<<t>> : t \in Ticks} \cup {<<t, u>> : t \in {x \in Ticks : x.bid = One}, u \in Ticks}

InstrumentSettings(digits, max_leverage, markup_settings) ==
    [digits |-> digits, max_leverage |-> max_leverage, markup_settings |-> markup_settings]

MarkupSettings(markup_bid, markup_ask, min_spread, max_spread) ==
    [markup_bid |-> markup_bid, markup_ask |-> markup_ask,
     min_spread |-> min_spread, max_spread |-> max_spread]

GroupSettings(id, hedge_coef, instruments, collaterals) ==
    [id |-> id, hedge_coef |-> hedge_coef, instruments |-> instruments,
     collaterals |-> collaterals]

\* group G1 with plain settings for both instruments
G1Full ==
    GroupSettings("G1", None,
        [i \in InstrumentIds |-> InstrumentSettings(1, None, None)],
        [c \in {"USD"} |-> [digits |-> 1]])

\* group G1 with a marked-up EURUSD and no settings for USDCAD
G1Partial ==
    GroupSettings("G1", Some(One \div 2),
        [i \in {"EURUSD"} |->
            InstrumentSettings(1, Some(1), Some(MarkupSettings(1, 2, Some(2), Some(3))))],
        [c \in {"USD"} |-> [digits |-> 1]])

\* group G2, which initialize does not load, with plain settings for EURUSD
G2Plain ==
    GroupSettings("G2", None,
        [i \in {"EURUSD"} |-> InstrumentSettings(1, None, None)],
        [c \in {"USD"} |-> [digits |-> 1]])

SettingsInputs == {G1Full, G1Partial, G2Plain}

Account(id, trader_id, trading_group, balance, leverage) ==
    [id |-> id, trader_id |-> trader_id, trading_group |-> trading_group,
     balance |-> balance, leverage |-> leverage,
     margin |-> 0, equity |-> 0, free_margin |-> 0, margin_level |-> 0]

\* group G2 has no settings unless trading_settings_changed adds them
AccountInputs ==
    {Account("A1", "T1", "G1", 10 * MoneyOne, 2),
     Account("A1", "T1", "G2", 10 * MoneyOne, 2),
     Account("A2", "T2", "G1", 5 * MoneyOne, 1)}

\* a position as the trading engine supplies it: opened at One / One + 1,
\* no conversion price and no subscriptions yet
Position(id, trader_id, account_id, asset_pair, collateral, is_buy, commission) ==
    LET i == InstrumentById(asset_pair)
        at_open == Bidask(asset_pair, One, One + 1, i.base, i.quote)
    IN [id |-> id, trader_id |-> trader_id, account_id |-> account_id,
        base |-> i.base, quote |-> i.quote, collateral |-> collateral,
        asset_pair |-> asset_pair, lots_amount |-> 1, contract_size |-> 1,
        is_buy |-> is_buy, pl |-> 0, commission |-> commission,
        open_bidask |-> at_open, active_bidask |-> at_open, margin_bidask |-> at_open,
        profit_bidask |-> create_blank, profit_price_assets_subscriptions |-> <<>>,
        swaps_sum |-> 0]

PositionInputs ==
    {Position("P1", "T1", "A1", "EURUSD", "USD", TRUE, 3),    \* quote = collateral
     Position("P1", "T2", "A2", "USDCAD", "USD", FALSE, 2),   \* conversion by the reversed USDCAD
     Position("P1", "T1", "A1", "USDCAD", "EUR", TRUE, 1),    \* conversion by a cross
     Position("P1", "T1", "A1", "EURUSD", "CAD", TRUE, 0),    \* conversion by the direct USDCAD
     Position("P2", "T1", "A1", "EURUSD", "USD", FALSE, 0)}

(***************************************************************************)
(* lib.rs: MicroEngine.  An engine value is the record of the four caches  *)
(* and the dirty set.                                                      *)
(***************************************************************************)
Engine(ac, pc, mapping, grps, c, ua) ==
    [accounts |-> ac, positions_cache |-> pc, accounts_mapping |-> mapping,
     groups |-> grps, bidask_cache |-> c, updated_assets |-> ua]

\* what an operation returned: the error if any, and the Option<Vec> of
\* account and of position update records
Returned(err, account_updates, position_updates) ==
    [err |-> err, account_updates |-> account_updates, position_updates |-> position_updates]

Unit == Returned("", None, None)

\* line 186: the accounts after the positions
AllAccountsAfter(e, pc) ==
    [e EXCEPT !.positions_cache = pc,
              !.accounts = recalculate_all_accounts(e.accounts, e.accounts_mapping,
                                                    e.groups, pc)]

recalculate_all(e) ==
    AllAccountsAfter(e, recalculate_all_positions(e.positions_cache, e.bidask_cache,
                                                  e.accounts_mapping, e.groups))

\* lines 48-58: the engine of the loaded caches
Loaded(accounts_cache, poss, settings, c) ==
    Engine(accounts_cache,
           PositionCacheNew(EmptyPositionCache, c, poss),
           SettingsMappingNew(accounts_cache.accounts),
           GroupsNew(EmptyMap, settings),
           c, {})

initialize(accs, poss, settings, cached_prices) ==
    recalculate_all(
        Loaded(AccountCacheNew(AccountCache(EmptyMap, EmptyMap), accs), poss, settings,
               BidAskCacheNew(PriceCache(EmptyMap, EmptyMap, EmptyMap), cached_prices)))

\* HandleOne without the insert into updated_assets
HandleOneUnmarked(e, bidask) ==
    [e EXCEPT !.bidask_cache = handle_new(e.bidask_cache, bidask)]

\* HandleOne followed by a full recalculation
HandleOneRecalculating(e, bidask) ==
    recalculate_all([e EXCEPT !.updated_assets = e.updated_assets \cup {bidask.id},
                              !.bidask_cache = handle_new(e.bidask_cache, bidask)])

\* lines 65-71: one bidask of the batch
HandleOne(e, bidask) ==
    [e EXCEPT !.updated_assets = e.updated_assets \cup {bidask.id},
              !.bidask_cache = handle_new(e.bidask_cache, bidask)]

\* handle_new_price going through the batch from its last element to its first
RECURSIVE handle_new_price_backwards(_, _)
handle_new_price_backwards(e, new_bidask) ==
    IF new_bidask = <<>> THEN e
    ELSE HandleOne(handle_new_price_backwards(e, Tail(new_bidask)), Head(new_bidask))

RECURSIVE handle_new_price(_, _)
handle_new_price(e, new_bidask) ==
    IF new_bidask = <<>> THEN e
    ELSE handle_new_price(HandleOne(e, Head(new_bidask)), Tail(new_bidask))

\* trading_settings_changed followed by a full recalculation
TradingSettingsChangedAndRecalculated(e, settings) ==
    recalculate_all([e EXCEPT !.groups = insert_or_replace_settings(e.groups, settings)])

trading_settings_changed(e, settings) ==
    [e EXCEPT !.groups = insert_or_replace_settings(e.groups, settings)]

\* r is what the account cache's insert_or_update_account gave
AccountOutcome(e, r) ==
    <<[e EXCEPT !.accounts = r.ac, !.accounts_mapping = r.mapping],
      IF r.result[1] = "Ok" THEN Returned("", Some(<<r.result[2]>>), None)
      ELSE Returned(r.result[1], None, None)>>

\* <<the engine afterwards, what is returned>>
EngineInsertOrUpdateAccount(e, account) ==
    AccountOutcome(e, insert_or_update_account(e.accounts, account, e.accounts_mapping,
                                               e.groups, e.positions_cache))

\* r is what the account cache's recalculate_account_data gave
OwnerOutcome(e, r) ==
    <<[e EXCEPT !.accounts = r[1]],
      IF IsSome(r[2]) THEN Returned("", Some(<<Unwrap(r[2])>>), None)
      ELSE Returned("AccountNotFound", None, None)>>

\* the engine's recalculation of one account after a position mutation
RecalculateOwner(e, account_id) ==
    OwnerOutcome(e, recalculate_account_data(e.accounts, e.accounts_mapping, e.groups,
                                             e.positions_cache, account_id))

\* PositionPriced storing the position before it fails on the missing price
PositionPricedStoredFirst(e, position, found) ==
    IF ~IsSome(found)
    THEN <<[e EXCEPT !.positions_cache = add_position(e.positions_cache, position)],
           Returned("ProfitPriceNotFond", None, None)>>
    ELSE RecalculateOwner(
             [e EXCEPT !.positions_cache =
                 add_position(e.positions_cache,
                     WithSubscriptions(position, UnwrapOrDefault(Unwrap(found)[2])))],
             position.account_id)

\* lines 109-124: the position is stored with its sources, its account recalculated
PositionPriced(e, position, found) ==
    IF ~IsSome(found) THEN <<e, Returned("ProfitPriceNotFond", None, None)>>
    ELSE RecalculateOwner(
             [e EXCEPT !.positions_cache =
                 add_position(e.positions_cache,
                     WithSubscriptions(position, UnwrapOrDefault(Unwrap(found)[2])))],
             position.account_id)

insert_or_update_position(e, position) ==
    PositionPriced(e, position,
        get_price_with_source(e.bidask_cache, position.quote, position.collateral))

\* r is what the position cache's remove_position gave
PositionRemoved(e, r) ==
    IF ~IsSome(r[2]) THEN <<e, Returned("PositionNotFound", None, None)>>
    ELSE RecalculateOwner([e EXCEPT !.positions_cache = r[1]], Unwrap(r[2]).account_id)

EngineRemovePosition(e, position_id) ==
    PositionRemoved(e, remove_position(e.positions_cache, position_id))

\* a drain that leaves the ids in the set
DrainKeeps(ua) == ua

\* updated_assets.drain(): what is left in the set
Drained(ua) == {}

\* the account ids of the position updates, in their order
UpdatedAccounts(position_updates) ==
    [k \in DOMAIN position_updates |-> position_updates[k].account_id]

\* lines 173-180: r is what recalculate_accounts_data gave
AccountsOutcome(e1, updated_positions, r) ==
    <<[e1 EXCEPT !.accounts = r[1]], Returned("", Some(r[2]), updated_positions)>>

\* PositionsOutcome without the early return: both lists whenever it is reached
PositionsOutcomeBoth(e1, updated_positions) ==
    AccountsOutcome(e1, Some(UnwrapOrDefault(updated_positions)),
        recalculate_accounts_data(
            e1.accounts, e1.accounts_mapping, e1.groups, e1.positions_cache,
            UpdatedAccounts(UnwrapOrDefault(updated_positions))))

\* lines 161-180: e1 is the engine after the positions were recalculated
PositionsOutcome(e1, updated_positions) ==
    IF ~IsSome(updated_positions) THEN <<e1, Returned("", None, None)>>
    ELSE AccountsOutcome(e1, updated_positions,
             recalculate_accounts_data(
                 e1.accounts, e1.accounts_mapping, e1.groups, e1.positions_cache,
                 UpdatedAccounts(Unwrap(updated_positions))))

\* lines 150-159: st is what recalculate_positions_pl gave
AfterPositions(e, st) ==
    PositionsOutcome([e EXCEPT !.updated_assets = Drained(e.updated_assets),
                               !.positions_cache = st.pc,
                               !.bidask_cache = st.c],
                     st.updated_positions)

\* updated_prices is the drained set in the order the drain yields it, ord
\* the order in which the index sets are iterated
recalculate_accordint_to_updates(e, updated_prices, ord) ==
    IF e.updated_assets = {} THEN <<e, Returned("", None, None)>>
    ELSE AfterPositions(e,
             recalculate_positions_pl(e.positions_cache, updated_prices,
                                      e.bidask_cache, e.accounts_mapping, e.groups, ord))

(***************************************************************************)
(* The state machine.                                                      *)
(***************************************************************************)
\* the engine value held by the variables
Now ==
    Engine(AccountCache(trader_index, accounts),
           PositionCache(PositionsIndex(trader_id_index, account_id_index, asset_pair_index,
                                        profit_price_subscription_indexes),
                         positions),
           accounts_mapping, groups,
           PriceCache(prices, base_quote_index, quote_base_index),
           updated_assets)

\* one more operation runs, and the variables take the engine value e
Becomes(e) ==
    /\ calls < MaxCalls
    /\ calls' = calls + 1
    /\ accounts' = e.accounts.accounts
    /\ trader_index' = e.accounts.trader_index
    /\ positions' = e.positions_cache.positions
    /\ trader_id_index' = e.positions_cache.indexes.trader_id_index
    /\ account_id_index' = e.positions_cache.indexes.account_id_index
    /\ asset_pair_index' = e.positions_cache.indexes.asset_pair_index
    /\ profit_price_subscription_indexes' =
           e.positions_cache.indexes.profit_price_subscription_indexes
    /\ accounts_mapping' = e.accounts_mapping
    /\ groups' = e.groups
    /\ prices' = e.bidask_cache.prices
    /\ base_quote_index' = e.bidask_cache.base_quote_index
    /\ quote_base_index' = e.bidask_cache.quote_base_index
    /\ updated_assets' = e.updated_assets

Call(op, arg) == [op |-> op, arg |-> arg]

\* the inputs initialize is called with
InitAccounts ==
    {<<Account("A1", "T1", "G1", 10 * MoneyOne, 2)>>,
     <<Account("A1", "T1", "G1", 10 * MoneyOne, 2), Account("A2", "T2", "G1", 5 * MoneyOne, 1)>>}

InitPositions ==
    {<<>>,
     <<Position("P1", "T1", "A1", "EURUSD", "USD", TRUE, 3),
       Position("P2", "T1", "A1", "EURUSD", "USD", FALSE, 0)>>}

InitPrices ==
    {<<Bidask("EURUSD", One, One + 1, "EUR", "USD")>>,
     <<Bidask("EURUSD", One, One + 1, "EUR", "USD"),
       Bidask("USDCAD", One, One + 1, "USD", "CAD")>>}

\* the variables hold the engine value e
Holds(e) ==
    /\ accounts = e.accounts.accounts
    /\ trader_index = e.accounts.trader_index
    /\ positions = e.positions_cache.positions
    /\ trader_id_index = e.positions_cache.indexes.trader_id_index
    /\ account_id_index = e.positions_cache.indexes.account_id_index
    /\ asset_pair_index = e.positions_cache.indexes.asset_pair_index
    /\ profit_price_subscription_indexes =
           e.positions_cache.indexes.profit_price_subscription_indexes
    /\ accounts_mapping = e.accounts_mapping
    /\ groups = e.groups
    /\ prices = e.bidask_cache.prices
    /\ base_quote_index = e.bidask_cache.base_quote_index
    /\ quote_base_index = e.bidask_cache.quote_base_index
    /\ updated_assets = e.updated_assets

Init ==
    /\ calls = 0
    /\ \E accs \in InitAccounts, poss \in InitPositions, cached \in InitPrices :
           /\ Holds(initialize(accs, poss, <<G1Full>>, cached))
           /\ lastCall = Call("initialize", <<>>)
           /\ result = Unit
           /\ recalcs_since_tick = 0

\* an operation ran: r is <<the engine afterwards, what it returned>>
Ran(call, r) ==
    /\ Becomes(r[1])
    /\ lastCall' = call
    /\ result' = r[2]
    /\ recalcs_since_tick' =
           IF call.op = "handle_new_price" THEN 0
           ELSE IF call.op = "recalculate_accordint_to_updates"
                THEN Min(recalcs_since_tick + 1, 2)
           ELSE recalcs_since_tick

HandleNewPrice ==
    \E batch \in Batches :
        Ran(Call("handle_new_price", batch), <<handle_new_price(Now, batch), Unit>>)

TradingSettingsChanged ==
    \E settings \in SettingsInputs :
        Ran(Call("trading_settings_changed", settings),
            <<trading_settings_changed(Now, settings), Unit>>)

InsertOrUpdateAccount ==
    \E account \in AccountInputs :
        Ran(Call("insert_or_update_account", account),
            EngineInsertOrUpdateAccount(Now, account))

InsertOrUpdatePosition ==
    \E position \in PositionInputs :
        Ran(Call("insert_or_update_position", position),
            insert_or_update_position(Now, position))

RemovePosition ==
    \E position_id \in PositionIds :
        Ran(Call("remove_position", position_id), EngineRemovePosition(Now, position_id))

Recalculate ==
    \E updated_prices \in Orders(updated_assets), ord \in Orders(PositionIds) :
        Ran(Call("recalculate_accordint_to_updates", updated_prices),
            recalculate_accordint_to_updates(Now, updated_prices, ord))

Next ==
    \/ HandleNewPrice
    \/ TradingSettingsChanged
    \/ InsertOrUpdateAccount
    \/ InsertOrUpdatePosition
    \/ RemovePosition
    \/ Recalculate

Spec == Init /\ [][Next]_vars

(***************************************************************************)
(* The functions of settings/mod.rs, bidask/dto.rs and positions/          *)
(* position.rs that depend on their arguments only, each applied once to   *)
(* arguments drawn from bounded sets.  lastCall holds the arguments and    *)
(* result what the function returned; the engine stays as initialized.     *)
(***************************************************************************)
MaxPips == 4
MaxLots == 2
MaxTicks == 2

\* the digits of an instrument: a pip is 1.0 or 0.1
ShapingDigits == {0, 1}

\* the multiples of a pip, and of half a pip, from lo to hi steps
WholePips(digits, lo, hi) == {k * PipUnits(digits) : k \in lo..hi}
HalfPips(digits, lo, hi) == {(k * PipUnits(digits)) \div 2 : k \in lo..hi}

PureInit ==
    /\ Holds(initialize(<<Account("A1", "T1", "G1", 10 * MoneyOne, 2)>>, <<>>, <<G1Full>>,
                        <<Bidask("EURUSD", One, One + 1, "EUR", "USD"),
                          Bidask("USDCAD", One, One + 1, "USD", "CAD")>>))
    /\ lastCall = Call("initialize", <<>>)
    /\ result = Unit
    /\ calls = 0
    /\ recalcs_since_tick = 0

\* a function was applied: returned is its value (each action applies its
\* function once, to the engine as initialized)
Applied(call, returned) ==
    /\ calls' = 1
    /\ lastCall' = call
    /\ result' = returned
    /\ UNCHANGED <<engine_vars, recalcs_since_tick>>

CalculateMaxSpread ==
    /\ calls = 0
    /\ \E digits \in ShapingDigits :
           \E bid \in HalfPips(digits, 2, 2 * MaxPips + 2),
              ask \in HalfPips(digits, 2, 2 * MaxPips + 2),
              max_spread \in WholePips(digits, 0, MaxPips) :
               /\ Applied(Call("calculate_max_spread",
                               [bid |-> bid, ask |-> ask, max_spread |-> max_spread,
                                digits |-> digits]),
                          calculate_max_spread(bid, ask, max_spread, digits))

CalculateMinSpread ==
    /\ calls = 0
    /\ \E digits \in ShapingDigits :
           \E bid \in HalfPips(digits, 2, 2 * MaxPips + 2),
              ask \in HalfPips(digits, 2, 2 * MaxPips + 2),
              min_spread \in WholePips(digits, 0, MaxPips) :
               /\ Applied(Call("calculate_min_spread",
                               [bid |-> bid, ask |-> ask, min_spread |-> min_spread,
                                digits |-> digits]),
                          calculate_min_spread(bid, ask, min_spread, digits))

\* calculate_bidask on a price of the pip grid, both bounds set, the markups
\* and the bounds in steps of half a pip
CalculateBidask ==
    /\ calls = 0
    /\ \E digits \in ShapingDigits :
           \E bid \in WholePips(digits, 1, MaxPips + 1),
              ask \in WholePips(digits, 1, MaxPips + 1),
              markup_bid \in {-PipUnits(digits), 0, PipUnits(digits) \div 2,
                              2 * PipUnits(digits)},
              markup_ask \in {0, PipUnits(digits) \div 2, PipUnits(digits)},
              min_spread \in HalfPips(digits, 0, 2 * MaxPips),
              max_spread \in HalfPips(digits, 0, 2 * MaxPips) :
               /\ min_spread <= max_spread
               /\ Applied(Call("calculate_bidask",
                               [bidask |-> Bidask("EURUSD", bid, ask, "EUR", "USD"),
                                settings |-> InstrumentSettings(digits, None,
                                                 Some(MarkupSettings(markup_bid, markup_ask,
                                                          Some(min_spread), Some(max_spread))))]),
                          calculate_bidask(
                              InstrumentSettings(digits, None,
                                  Some(MarkupSettings(markup_bid, markup_ask,
                                           Some(min_spread), Some(max_spread)))),
                              Bidask("EURUSD", bid, ask, "EUR", "USD")))

\* the prices reverse is applied to: instrument prices and synthetic ones
ReverseInputs ==
    {Bidask(id, bid, ask, bq[1], bq[2]) :
        id \in {"EURUSD", ""}, bid \in (One \div 2)..(One + MaxPips),
        ask \in (One \div 2)..(One + MaxPips), bq \in {<<"EUR", "USD">>, <<"", "">>}}

Reverse ==
    /\ calls = 0
    /\ \E x \in ReverseInputs :
           /\ Applied(Call("reverse", x), reverse(x))

\* the settings update_bidask is called with: a marked-up EURUSD, with and
\* without spread bounds, and a plain USDCAD
UpdateSettingsInputs ==
    {GroupSettings("G1", None,
         [i \in InstrumentIds |->
             IF i = "EURUSD"
             THEN InstrumentSettings(1, None,
                      Some(MarkupSettings(mb, ma, bounds[1], bounds[2])))
             ELSE InstrumentSettings(1, None, None)],
         [c \in {"USD"} |-> [digits |-> 1]]) :
        mb \in {-1, 0}, ma \in {0, 1, 2},
        bounds \in {<<None, None>>, <<Some(2), None>>, <<None, Some(1)>>}}

\* the positions update_bidask is called on, with the subscriptions an
\* insert gives them: the inputs of the engine and two positions on EURUSD
\* with collateral EUR, which the reversed EURUSD converts
UpdatePositionInputs ==
    {WithSubscriptions(p,
         UnwrapOrDefault(Unwrap(get_price_with_source(Now.bidask_cache,
                                                      p.quote, p.collateral))[2])) :
        p \in PositionInputs \cup {Position("P1", "T1", "A1", "EURUSD", "EUR", TRUE, 1),
                                   Position("P2", "T1", "A1", "EURUSD", "EUR", FALSE, 0)}}

UpdateBidask ==
    /\ calls = 0
    /\ \E p \in UpdatePositionInputs, bidask \in Ticks, settings \in UpdateSettingsInputs :
           /\ Applied(Call("update_bidask", [position |-> p, bidask |-> bidask,
                                             settings |-> settings]),
                      update_bidask(p, bidask, Now.bidask_cache, settings))

\* one buy and one sell position of one instrument, with their lots, the
\* contract size of the instrument and the prices the margin is taken at
HedgePair(lots_buy, lots_sell, contract_size, price) ==
    {[Position("P1", "T1", "A1", "EURUSD", "USD", TRUE, 0)
         EXCEPT !.lots_amount = lots_buy, !.contract_size = contract_size,
                !.margin_bidask.bid = price, !.margin_bidask.ask = price + 1],
     [Position("P2", "T1", "A1", "EURUSD", "USD", FALSE, 1)
         EXCEPT !.lots_amount = lots_sell, !.contract_size = contract_size,
                !.margin_bidask.bid = price + 2, !.margin_bidask.ask = price + 3]}

CalculateInstrumentMargin ==
    /\ calls = 0
    /\ \E lots_buy \in 1..MaxLots, lots_sell \in 1..MaxLots, contract_size \in 1..2,
          price \in {One, One + 1}, leverage \in {2, 4},
          max_leverage \in {None, Some(1), Some(4)},
          hedge_coef \in {None, Some(One \div 2), Some(One)} :
           /\ Applied(Call("calculate_specific_instrument_margin_and_gross_pl",
                           [positions |-> HedgePair(lots_buy, lots_sell, contract_size, price),
                            account |-> Account("A1", "T1", "G1", 10 * MoneyOne, leverage),
                            hedge_coef |-> hedge_coef,
                            settings |-> InstrumentSettings(1, max_leverage, None)]),
                      calculate_specific_instrument_margin_and_gross_pl(
                          HedgePair(lots_buy, lots_sell, contract_size, price),
                          Account("A1", "T1", "G1", 10 * MoneyOne, leverage),
                          hedge_coef,
                          InstrumentSettings(1, max_leverage, None)))

\* the positions the indices are built from: two owners, both instruments,
\* no subscription or two
IndexPositions(ids) ==
    {WithSubscriptions(Position(id, owner[1], owner[2], asset_pair, "USD", TRUE, 0), subs) :
        id \in ids, owner \in {<<"T1", "A1">>, <<"T2", "A2">>},
        asset_pair \in InstrumentIds, subs \in {<<>>, <<"EURUSD", "USDCAD">>}}

\* the indices of no position, of one and of two
IndexInputs ==
    {EmptyPositionCache.indexes}
    \cup {add_index(EmptyPositionCache.indexes, p) : p \in IndexPositions({"P1", "P2"})}
    \cup {add_index(add_index(EmptyPositionCache.indexes, p), q) :
              p \in IndexPositions({"P1"}), q \in IndexPositions({"P2"})}

\* the ids an index holds under any key
IndexedIds(ix) ==
    UNION {UNION {ix[f][k] : k \in DOMAIN ix[f]} : f \in DOMAIN ix}

\* add_index of a position whose id the index does not hold, then
\* remove_indexes of the same position
AddThenRemoveIndex ==
    /\ calls = 0
    /\ \E ix \in IndexInputs, position \in IndexPositions({"P2", "P3"}) :
           /\ position.id \notin IndexedIds(ix)
           /\ Applied(Call("add_index, remove_indexes", [indexes |-> ix, position |-> position]),
                      [added |-> add_index(ix, position),
                       removed |-> remove_indexes(add_index(ix, position), position)])

ApplyMaxSpread ==
    /\ calls = 0
    /\ \E digits \in ShapingDigits :
           \E bid \in HalfPips(digits, 2, 2 * MaxPips + 2),
              ask \in HalfPips(digits, 2, 2 * MaxPips + 2),
              max_spread \in HalfPips(digits, 0, MaxPips) :
               /\ Applied(Call("apply_max_spread",
                               [bidask |-> Bidask("EURUSD", bid, ask, "EUR", "USD"),
                                max_spread |-> max_spread, digits |-> digits]),
                          apply_max_spread(Bidask("EURUSD", bid, ask, "EUR", "USD"),
                                           max_spread, digits))

ApplyMinSpread ==
    /\ calls = 0
    /\ \E digits \in ShapingDigits :
           \E bid \in HalfPips(digits, 2, 2 * MaxPips + 2),
              ask \in HalfPips(digits, 2, 2 * MaxPips + 2),
              min_spread \in HalfPips(digits, 0, MaxPips) :
               /\ Applied(Call("apply_min_spread",
                               [bidask |-> Bidask("EURUSD", bid, ask, "EUR", "USD"),
                                min_spread |-> min_spread, digits |-> digits]),
                          apply_min_spread(Bidask("EURUSD", bid, ask, "EUR", "USD"),
                                           min_spread, digits))

\* the markup settings of an instrument: none, or markups with each bound
\* unset or set, in steps of half a pip
MarkupInputs(digits) ==
    {None} \cup
    {Some(MarkupSettings(markup_bid, markup_ask, min_spread, max_spread)) :
        markup_bid \in {-PipUnits(digits), PipUnits(digits) \div 2},
        markup_ask \in {0, PipUnits(digits)},
        min_spread \in {None} \cup {Some(v) : v \in HalfPips(digits, 1, 4)},
        max_spread \in {None} \cup {Some(v) : v \in HalfPips(digits, 0, 2)}}

MutateBidask ==
    /\ calls = 0
    /\ \E digits \in ShapingDigits :
           \E bid \in HalfPips(digits, 2, MaxPips + 2),
              ask \in HalfPips(digits, 2, MaxPips + 2),
              markup_settings \in MarkupInputs(digits) :
               /\ Applied(Call("mutate_bidask",
                               [bidask |-> Bidask("EURUSD", bid, ask, "EUR", "USD"),
                                settings |-> InstrumentSettings(digits, None, markup_settings)]),
                          mutate_bidask(InstrumentSettings(digits, None, markup_settings),
                                        Bidask("EURUSD", bid, ask, "EUR", "USD")))

\* prices under ids and pairs of any kind: an id under several pairs, a
\* pair under several ids
PairTicks ==
    {Bidask(id, One, One + 1, pair[1], pair[2]) :
        id \in {"EURUSD", "X"},
        pair \in {<<"EUR", "USD">>, <<"USD", "EUR">>, <<"USD", "CAD">>}}

\* handle_new called for each price of a sequence
RECURSIVE HandleNewEach(_, _)
HandleNewEach(c, ticks) ==
    IF ticks = <<>> THEN c ELSE HandleNewEach(handle_new(c, Head(ticks)), Tail(ticks))

\* a sequence of handle_new calls on a price cache built without prices
HandleNewSequence ==
    /\ calls = 0
    /\ \E n \in 1..MaxTicks :
           \E ticks \in [1..n -> PairTicks] :
               /\ Applied(Call("handle_new", ticks),
                          HandleNewEach(BidAskCacheNew(PriceCache(EmptyMap, EmptyMap, EmptyMap),
                                                       <<>>),
                                        ticks))

PureNext ==
    \/ CalculateMaxSpread
    \/ HandleNewSequence
    \/ ApplyMaxSpread
    \/ ApplyMinSpread
    \/ MutateBidask
    \/ AddThenRemoveIndex
    \/ CalculateInstrumentMargin
    \/ CalculateMinSpread
    \/ CalculateBidask
    \/ Reverse
    \/ UpdateBidask

PureSpec == PureInit /\ [][PureNext]_vars

(***************************************************************************)
(* The properties.                                                         *)
(***************************************************************************)
RecalculateOp == "recalculate_accordint_to_updates"

\* the ids an inverted index holds under a key
Indexed(index, key) == IF Has(index, key) THEN index[key] ELSE {}

\* the keys under which an inverted index holds an id
KeysOf(index, id) == {k \in DOMAIN index : id \in index[k]}

\* C1: a position id is in trader_id_index[t], account_id_index[a],
\* asset_pair_index[p] or profit_price_subscription_indexes[s] if and only
\* if the position map holds a position with that id whose trader_id is t,
\* account_id is a, asset_pair is p, or whose subscription list contains s.
C1_IndexesMatchPositions ==
    \A id \in PositionIds :
        /\ \A t \in TraderIds :
              id \in Indexed(trader_id_index, t)
                  <=> (Has(positions, id) /\ positions[id].trader_id = t)
        /\ \A a \in AccountIds :
              id \in Indexed(account_id_index, a)
                  <=> (Has(positions, id) /\ positions[id].account_id = a)
        /\ \A i \in InstrumentIds :
              id \in Indexed(asset_pair_index, i)
                  <=> (Has(positions, id) /\ positions[id].asset_pair = i)
        /\ \A i \in InstrumentIds :
              id \in Indexed(profit_price_subscription_indexes, i)
                  <=> (Has(positions, id)
                       /\ i \in Range(positions[id].profit_price_assets_subscriptions))

\* C2: the subscription list of every stored position is empty if and only
\* if the position's quote equals its collateral.
C2_SubscriptionsEmptyIffSameCurrency ==
    \A id \in DOMAIN positions :
        (positions[id].profit_price_assets_subscriptions = <<>>)
            <=> (positions[id].quote = positions[id].collateral)

\* C3: for every stored position whose quote differs from its collateral,
\* the instrument ids under which its id is in the subscription index are
\* exactly the source ids get_price_with_source returned at its last
\* insert, which insert_or_update_position stored as its subscription list.
C3_SubscriptionIndexMatchesSources ==
    \A id \in DOMAIN positions :
        positions[id].quote # positions[id].collateral
            => KeysOf(profit_price_subscription_indexes, id)
                   = Range(positions[id].profit_price_assets_subscriptions)

\* the instrument ids of a batch of ticks
BatchIds(batch) == {batch[k].id : k \in DOMAIN batch}

\* C4: handle_new_price leaves every id of its batch in the dirty set (with
\* the ids that were there); no operation but recalculate_accordint_to_updates
\* takes an id out; a recalculation processes exactly the dirty ids, each
\* once, and leaves the set empty; and every dirty id has a price in the
\* price cache for the recalculation to use.
C4_DirtySetKeepsTicks ==
    [][/\ lastCall'.op = "handle_new_price"
            => updated_assets' = updated_assets \cup BatchIds(lastCall'.arg)
       /\ lastCall'.op = RecalculateOp
            => /\ updated_assets' = {}
               /\ Range(lastCall'.arg) = updated_assets
               /\ Len(lastCall'.arg) = Cardinality(updated_assets)
       /\ lastCall'.op \notin {"handle_new_price", RecalculateOp}
            => updated_assets' = updated_assets
       /\ updated_assets' \subseteq DOMAIN prices']_vars

\* a recalculation has just drained both instruments
C4_Witness ==
    /\ lastCall.op = RecalculateOp
    /\ Len(lastCall.arg) = 2
    /\ updated_assets = {}

\* C5: a recalculate_accordint_to_updates that runs when another one ran
\* before it with no handle_new_price between them, whatever else ran
\* between, returns (none, none) and changes nothing of the engine's state.
C5_SecondRecalculationIdle ==
    [][(recalcs_since_tick >= 1 /\ lastCall'.op = RecalculateOp)
          => (result' = Unit /\ UNCHANGED engine_vars)]_vars

\* a tick, then two recalculations with no tick between, the second one
\* after a position was stored under the conversion instrument
C5_Witness ==
    /\ recalcs_since_tick = 2
    /\ lastCall.op = RecalculateOp
    /\ prices["EURUSD"].bid > One
    /\ Has(positions, "P1") /\ positions["P1"].asset_pair = "USDCAD"

\* whether the account id resolves to group settings now
Resolves(account_id) == IsSome(resolve_by_account(accounts_mapping, groups, account_id))

\* the stored positions indexed under one of the ids D, by asset pair or by
\* subscription, whose account resolves to group settings
TouchedBy(D) ==
    {id \in DOMAIN positions :
        /\ \E d \in D : id \in Indexed(asset_pair_index, d)
                               \cup Indexed(profit_price_subscription_indexes, d)
        /\ Resolves(positions[id].account_id)}

BothLists(r) == r.err = "" /\ IsSome(r.account_updates) /\ IsSome(r.position_updates)

\* C6 (as the spec states it): recalculate_accordint_to_updates returns
\* (none, none) when the dirty set is empty and both lists whenever the
\* dirty set is not empty.
C6_BothListsWhenDirty ==
    [][lastCall'.op = RecalculateOp
          => IF updated_assets = {} THEN result' = Unit ELSE BothLists(result')]_vars

\* C6 (amended): recalculate_accordint_to_updates returns (none, none)
\* exactly when no stored position is indexed under a dirty id with an
\* account that resolves to group settings (so also when the dirty set is
\* empty), and both lists otherwise.
C6_BothListsWhenTouched ==
    [][lastCall'.op = RecalculateOp
          => IF TouchedBy(updated_assets) = {} THEN result' = Unit
             ELSE BothLists(result')]_vars

\* a recalculation drained a dirty id and returned (none, none)
C6_Witness ==
    /\ lastCall.op = RecalculateOp
    /\ lastCall.arg # <<>>
    /\ result = Unit

\* no two records of the list have the same value of the field
Distinct(list, field(_)) ==
    \A i, j \in DOMAIN list : field(list[i]) = field(list[j]) => i = j

\* C7: the account update list recalculate_accordint_to_updates returns
\* has at most one record per account id.
C7_OneUpdatePerAccount ==
    (lastCall.op = RecalculateOp /\ IsSome(result.account_updates))
        => Distinct(Unwrap(result.account_updates), LAMBDA u : u.account_id)

\* C8: a recalculation of a single dirty price id yields at most one
\* position update record per position, also for a position that is in
\* both the asset_pair index and the subscription index of that id.
C8_OneRecordPerTouchedPosition ==
    (lastCall.op = RecalculateOp /\ Len(lastCall.arg) = 1 /\ IsSome(result.position_updates))
        => Distinct(Unwrap(result.position_updates), LAMBDA u : u.position_id)

\* the stored positions whose asset_pair is in D or whose subscription
\* list intersects D, and whose account resolves to group settings
ConcernedBy(D) ==
    {id \in DOMAIN positions :
        /\ \/ positions[id].asset_pair \in D
           \/ Range(positions[id].profit_price_assets_subscriptions) \cap D # {}
        /\ Resolves(positions[id].account_id)}

\* C9: the position ids of the position updates a recalculation returns
\* are exactly the stored positions whose asset_pair is dirty or whose
\* subscription list holds a dirty id and whose account resolves to group
\* settings, and every account of a reported position that exists and has
\* settings gets an account update.
C9_UpdatesAreTheConcernedPositions ==
    [][lastCall'.op = RecalculateOp
          => LET ups == UnwrapOrDefault(result'.position_updates)
                 accs == UnwrapOrDefault(result'.account_updates)
             IN /\ {ups[k].position_id : k \in DOMAIN ups} = ConcernedBy(updated_assets)
                /\ \A k \in DOMAIN ups :
                      (Has(accounts, ups[k].account_id) /\ Resolves(ups[k].account_id))
                          => \E j \in DOMAIN accs : accs[j].account_id = ups[k].account_id]_vars

\* the sum of get_gross_pl over the positions stored for the account
StoredGross(account_id) ==
    SumFn([id \in {x \in DOMAIN positions : positions[x].account_id = account_id}
              |-> get_gross_pl(positions[id])])

\* the account update records the last operation returned
ReturnedAccountUpdates == Range(UnwrapOrDefault(result.account_updates))

\* the accounts the last operation recalculated
RecalculatedAccounts ==
    IF lastCall.op = "initialize" THEN {a \in DOMAIN accounts : Resolves(a)}
    ELSE {u.account_id : u \in ReturnedAccountUpdates} \cap DOMAIN accounts

\* C10: right after an operation that recalculates an account, the
\* account's equity minus its balance is the sum of get_gross_pl over the
\* positions stored for the account, and so is the total_gross returned.
C10_EquityIsBalancePlusGross ==
    /\ \A a \in RecalculatedAccounts :
          accounts[a].equity - accounts[a].balance = StoredGross(a)
    /\ \A u \in ReturnedAccountUpdates : u.total_gross = StoredGross(u.account_id)

\* C11: every account of the cache has free_margin = equity - margin and
\* margin_level = 0 when its margin is below 0.00001 (less than one money
\* unit) and equity / margin * 100 otherwise, and every account update
\* record an operation returns carries the values the cache stores for the
\* account.
C11_AccountTotalsAndUpdateAgree ==
    /\ \A a \in DOMAIN accounts :
          /\ accounts[a].free_margin = accounts[a].equity - accounts[a].margin
          /\ accounts[a].margin_level =
                 IF accounts[a].margin < 1 THEN 0
                 ELSE DivTrunc(accounts[a].equity * 100, accounts[a].margin)
    /\ \A u \in ReturnedAccountUpdates :
          Has(accounts, u.account_id)
              => /\ u.margin = accounts[u.account_id].margin
                 /\ u.equity = accounts[u.account_id].equity
                 /\ u.free_margin = accounts[u.account_id].free_margin
                 /\ u.margin_level = accounts[u.account_id].margin_level

\* an operation returned the update of an account that holds margin
C11_Witness ==
    \E u \in ReturnedAccountUpdates :
        /\ Has(accounts, u.account_id)
        /\ u.margin > 0
        /\ u.margin_level > 0
        /\ u.free_margin < u.equity

\* <<bid, ask>> of a price
BidAsk(b) == <<b.bid, b.ask>>

\* the group settings the account id resolves to now, as an Option
SettingsOf(account_id) == resolve_by_account(accounts_mapping, groups, account_id)

\* whether the account of the position resolves to group settings that
\* have the instrument
HasInstrumentSettings(p, instrument) ==
    /\ Resolves(p.account_id)
    /\ Has(Unwrap(SettingsOf(p.account_id)).instruments, instrument)

\* C12: after recalculate_accordint_to_updates every stored position whose
\* asset_pair was in the drained dirty set and whose account resolves to
\* group settings that have the instrument has the active bid and ask that
\* calculate_bidask gives for the price cache's price of the instrument;
\* a position whose asset_pair was not in the drained set keeps its
\* active_bidask.
C12_ActiveBidaskIsShapedPrice ==
    [][lastCall'.op = RecalculateOp
          => /\ DOMAIN positions' = DOMAIN positions
             /\ \A id \in DOMAIN positions :
                   IF positions[id].asset_pair \in updated_assets
                   THEN HasInstrumentSettings(positions[id], positions[id].asset_pair)
                            => BidAsk(positions'[id].active_bidask)
                                   = calculate_bidask(
                                         Unwrap(SettingsOf(positions[id].account_id))
                                             .instruments[positions[id].asset_pair],
                                         prices'[positions[id].asset_pair])
                   ELSE positions'[id].active_bidask = positions[id].active_bidask]_vars

\* a recalculation drained EURUSD and position P1 on EURUSD has an active
\* price that the group's markup moved away from the cached price
C12_Witness ==
    /\ lastCall.op = RecalculateOp
    /\ "EURUSD" \in Range(lastCall.arg)
    /\ Has(positions, "P1") /\ positions["P1"].asset_pair = "EURUSD"
    /\ HasInstrumentSettings(positions["P1"], "EURUSD")
    /\ IsSome(Unwrap(SettingsOf(positions["P1"].account_id)).instruments["EURUSD"].markup_settings)
    /\ BidAsk(positions["P1"].active_bidask) # BidAsk(prices["EURUSD"])
    /\ BidAsk(positions["P1"].active_bidask) # BidAsk(positions["P1"].open_bidask)

\* the position with the three fields a recalculation writes blanked
Framed(p) == [p EXCEPT !.pl = 0, !.active_bidask = create_blank, !.profit_bidask = create_blank]

\* the two position maps hold the same ids and differ at most in pl,
\* active_bidask and profit_bidask
SameButRecalculated(before, after) ==
    /\ DOMAIN after = DOMAIN before
    /\ \A id \in DOMAIN before : Framed(after[id]) = Framed(before[id])

\* the position cache of engine e1 has the indices of that of e0, and its
\* positions differ at most in pl, active_bidask and profit_bidask
SamePositionCacheButRecalculated(e0, e1) ==
    /\ SameButRecalculated(e0.positions_cache.positions, e1.positions_cache.positions)
    /\ e1.positions_cache.indexes = e0.positions_cache.indexes

\* C13: recalculate_accordint_to_updates, and the full recalculation that
\* initialize runs (applied here to every reachable engine state), change
\* no field of a stored position other than pl, active_bidask and
\* profit_bidask, and leave the four indices as they are.
C13_RecalculationWritesThreeFields ==
    /\ [][lastCall'.op = RecalculateOp
              => /\ SameButRecalculated(positions, positions')
                 /\ UNCHANGED <<trader_id_index, account_id_index, asset_pair_index,
                                profit_price_subscription_indexes>>]_vars
    /\ []SamePositionCacheButRecalculated(Now, recalculate_all(Now))

\* a recalculation moved the active price of a position away from its
\* open price
C13_Witness ==
    /\ lastCall.op = RecalculateOp
    /\ IsSome(result.position_updates)
    /\ \E id \in DOMAIN positions :
          /\ positions[id].active_bidask # positions[id].open_bidask
          /\ positions[id].pl # 0

\* C14: trading_settings_changed stores the given settings under their id,
\* replacing or adding that group, and changes nothing else: no other
\* group, no position, no index, no account, not the mapping, not the
\* price cache and not the dirty set.
C14_SettingsChangeOnlyGroups ==
    [][lastCall'.op = "trading_settings_changed"
          => /\ DOMAIN groups' = DOMAIN groups \cup {lastCall'.arg.id}
             /\ groups'[lastCall'.arg.id] = lastCall'.arg
             /\ \A g \in DOMAIN groups \ {lastCall'.arg.id} : groups'[g] = groups[g]
             /\ UNCHANGED <<accounts, trader_index, positions, trader_id_index,
                            account_id_index, asset_pair_index,
                            profit_price_subscription_indexes, accounts_mapping,
                            prices, base_quote_index, quote_base_index,
                            updated_assets>>]_vars

\* settings were stored that a full recalculation would show in the
\* accounts, and the accounts are as they were
C14_Witness ==
    /\ lastCall.op = "trading_settings_changed"
    /\ groups[lastCall.arg.id] = lastCall.arg
    /\ positions # EmptyMap
    /\ recalculate_all(Now).accounts.accounts # accounts

\* the price cache holds the price of an instrument between the two
\* currencies, quoted either way
Priced(a, b) ==
    \E id \in DOMAIN prices :
        \/ (prices[id].base = a /\ prices[id].quote = b)
        \/ (prices[id].base = b /\ prices[id].quote = a)

\* an identity, direct, reversed or two-leg cross price takes the quote
\* currency to the collateral
Resolvable(quote, collateral) ==
    \/ quote = collateral
    \/ Priced(quote, collateral)
    \/ \E m \in Currencies \ {quote, collateral} : Priced(quote, m) /\ Priced(m, collateral)

\* C15: insert_or_update_position fails with the profit-price error
\* (MicroEngineError::ProfitPriceNotFond) exactly when no identity, direct,
\* reversed or cross price takes position.quote to position.collateral,
\* and then the position map, the four indices, the accounts and the rest
\* of the engine's state are as before the call.
C15_NoProfitPriceNoChange ==
    [][lastCall'.op = "insert_or_update_position"
          => /\ (result'.err = "ProfitPriceNotFond")
                    <=> ~Resolvable(lastCall'.arg.quote, lastCall'.arg.collateral)
             /\ result'.err = "ProfitPriceNotFond"
                    => (UNCHANGED engine_vars
                        /\ ~IsSome(result'.account_updates))]_vars

\* an insert failed on the missing conversion price while positions are stored
C15_Witness ==
    /\ lastCall.op = "insert_or_update_position"
    /\ result.err = "ProfitPriceNotFond"
    /\ ~Has(prices, "USDCAD")
    /\ positions # EmptyMap

\* the stored positions of the account, by their account_id field
OwnedPositions(ps, account_id) == {ps[x] : x \in {y \in DOMAIN ps : ps[y].account_id = account_id}}

\* r is <<the account afterwards, the update record>> as recalculated; the
\* account is stored so and the call returned the record
StoredAndReturned(accs, account_id, returned, r) ==
    /\ Has(accs, account_id)
    /\ accs[account_id] = r[1]
    /\ returned.err = ""
    /\ returned.account_updates = Some(<<r[2]>>)

\* the id is under no key of the four indices
Unindexed(ti, ai, pi, si, id) ==
    KeysOf(ti, id) \cup KeysOf(ai, id) \cup KeysOf(pi, id) \cup KeysOf(si, id) = {}

\* C16: remove_position of an id that is not in the position map returns
\* PositionNotFound and leaves the engine's state as it was; of a stored id
\* it takes the position out of the map and out of every entry of the four
\* indices, stores the owning account as recalculated from the positions
\* that remain stored for it, and returns that account's update.
C16_RemoveUnindexesAndRecomputes ==
    [][lastCall'.op = "remove_position"
          => IF ~Has(positions, lastCall'.arg)
             THEN result'.err = "PositionNotFound" /\ UNCHANGED engine_vars
             ELSE /\ positions' = Del(positions, lastCall'.arg)
                  /\ Unindexed(trader_id_index', account_id_index', asset_pair_index',
                               profit_price_subscription_indexes', lastCall'.arg)
                  /\ Has(accounts, positions[lastCall'.arg].account_id)
                  /\ Resolves(positions[lastCall'.arg].account_id)
                  /\ StoredAndReturned(accounts', positions[lastCall'.arg].account_id, result',
                         AccountRecalculate(
                             accounts[positions[lastCall'.arg].account_id],
                             OwnedPositions(positions', positions[lastCall'.arg].account_id),
                             Unwrap(resolve_by_account(accounts_mapping, groups,
                                        positions[lastCall'.arg].account_id))))]_vars

\* C17: insert_or_update_account returns AccountSettingsNotFound exactly
\* when no settings group has the account's trading_group as id; otherwise
\* the account is stored under its id, the other accounts untouched, with
\* margin, equity, free_margin and margin_level recalculated from the
\* positions stored for the account, and the update with those values is
\* returned.
C17_AccountStoredRecalculated ==
    [][lastCall'.op = "insert_or_update_account"
          => /\ (result'.err = "AccountSettingsNotFound")
                    <=> ~Has(groups, lastCall'.arg.trading_group)
             /\ Has(groups, lastCall'.arg.trading_group)
                    => /\ StoredAndReturned(accounts', lastCall'.arg.id, result',
                              AccountRecalculate(lastCall'.arg,
                                  OwnedPositions(positions, lastCall'.arg.id),
                                  groups[lastCall'.arg.trading_group]))
                       /\ DOMAIN accounts' = DOMAIN accounts \cup {lastCall'.arg.id}
                       /\ \A a \in DOMAIN accounts \ {lastCall'.arg.id} :
                             accounts'[a] = accounts[a]]_vars

\* the drained ids under which the stored position id is indexed, by
\* asset pair or by subscription
TouchingTicks(D, id) ==
    {d \in D : id \in Indexed(asset_pair_index, d)
                      \cup Indexed(profit_price_subscription_indexes, d)}

\* the account of the position does not resolve to group settings (unknown
\* accounts included), or the group has settings for none of the ticks
SkippedFor(p, ticks) ==
    \/ ~Resolves(p.account_id)
    \/ \A d \in ticks : ~HasInstrumentSettings(p, d)

SameThreeFields(p, q) ==
    /\ p.pl = q.pl
    /\ p.active_bidask = q.active_bidask
    /\ p.profit_bidask = q.profit_bidask

\* the returned position updates have a record of the position id
HasPositionUpdate(r, id) ==
    \E k \in DOMAIN UnwrapOrDefault(r.position_updates) :
        UnwrapOrDefault(r.position_updates)[k].position_id = id

\* C18: in recalculate_accordint_to_updates a touched position whose
\* account is unknown or does not resolve to group settings, or whose group
\* has settings for none of the drained instruments that touch it, keeps
\* its pl, active_bidask and profit_bidask; the call raises no error, and
\* every other touched position is recalculated and reported.
C18_SkippedPositionsKeepFields ==
    [][lastCall'.op = RecalculateOp
          => /\ result'.err = ""
             /\ \A id \in DOMAIN positions :
                   TouchingTicks(updated_assets, id) # {}
                       => IF SkippedFor(positions[id], TouchingTicks(updated_assets, id))
                          THEN SameThreeFields(positions'[id], positions[id])
                          ELSE HasPositionUpdate(result', id)]_vars

\* the price difference in the position's favour: close of the active
\* price against open of the open price
Diff(p) ==
    IF p.is_buy THEN p.active_bidask.bid - p.open_bidask.ask
    ELSE p.open_bidask.bid - p.active_bidask.ask

\* diff * lots * contract_size at conversion factor 1, in money units,
\* rounded to the digits of the collateral in the settings (2 if it has none)
IdentityPl(p, settings) ==
    round_float_to_digits(Diff(p) * p.lots_amount * p.contract_size * One,
        IF p.collateral \in DOMAIN settings.collaterals
        THEN settings.collaterals[p.collateral].digits ELSE 2)

LastOf(batch, id) ==
    CHOOSE k \in DOMAIN batch :
        /\ batch[k].id = id
        /\ \A j \in DOMAIN batch : batch[j].id = id => j <= k

\* C20: after handle_new_price the price cache holds, for every id of the
\* batch, the last bidask of the batch with that id, which is what get_by_id
\* returns for it; the price of an id that is not in the batch is as before.
C20_BatchAppliedInOrder ==
    [][lastCall'.op = "handle_new_price"
          => /\ \A k \in DOMAIN lastCall'.arg :
                   Get(prices', lastCall'.arg[k].id)
                       = Some(lastCall'.arg[LastOf(lastCall'.arg, lastCall'.arg[k].id)])
             /\ \A id \in DOMAIN prices' \ {lastCall'.arg[k].id : k \in DOMAIN lastCall'.arg} :
                   Get(prices, id) = Some(prices'[id])]_vars

\* a batch carried two different prices of one instrument and the cache
\* holds the second
C20_Witness ==
    /\ lastCall.op = "handle_new_price"
    /\ Len(lastCall.arg) = 2
    /\ lastCall.arg[1].id = lastCall.arg[2].id
    /\ lastCall.arg[1].bid # lastCall.arg[2].bid
    /\ Get(prices, lastCall.arg[2].id) = Some(lastCall.arg[2])

\* the ids of the cached prices quoted (base, quote)
Quoting(base, quote) ==
    {id \in DOMAIN prices : prices[id].base = base /\ prices[id].quote = quote}

\* found is Some(<<the stored price of one of the ids, no sources>>)
IsDirectHit(found, ids) ==
    \E id \in ids : found = Some(<<prices[id], None>>)

\* found is Some(<<the price of one of the ids turned round, that id>>):
\* bid = 1/ask, ask = 1/bid, base and quote swapped
IsReversedHit(found, ids) ==
    /\ IsSome(found)
    /\ \E id \in ids :
          /\ Unwrap(found)[2] = Some(<<id>>)
          /\ Unwrap(found)[1].bid = (One * One) \div prices[id].ask
          /\ Unwrap(found)[1].ask = (One * One) \div prices[id].bid
          /\ Unwrap(found)[1].base = prices[id].quote
          /\ Unwrap(found)[1].quote = prices[id].base

\* the rate from one currency to the other by the cached price id, which
\* quotes them one way or the other
RateBy(id, from) ==
    IF prices[id].base = from THEN <<prices[id].bid, prices[id].ask>>
    ELSE <<(One * One) \div prices[id].ask, (One * One) \div prices[id].bid>>

\* found is Some(<<the product of the two leg rates, the two leg ids>>)
IsCrossOf(found, base, quote, l, r, lrate, rrate) ==
    /\ IsSome(found)
    /\ Unwrap(found)[2] = Some(<<l, r>>)
    /\ Unwrap(found)[1].bid = (lrate[1] * rrate[1]) \div One
    /\ Unwrap(found)[1].ask = (lrate[2] * rrate[2]) \div One
    /\ Unwrap(found)[1].base = base
    /\ Unwrap(found)[1].quote = quote

IsCrossHit(found, base, quote) ==
    \E m \in Currencies \ {base, quote} :
        \E l \in Quoting(base, m) \cup Quoting(m, base),
           r \in Quoting(m, quote) \cup Quoting(quote, m) :
            IsCrossOf(found, base, quote, l, r, RateBy(l, base), RateBy(r, m))

\* what the claim lets get_price_with_source(base, quote) return
IsPriceWithSource(found, base, quote) ==
    IF base = quote THEN found = Some(<<create_blank, None>>)
    ELSE IF Quoting(base, quote) # {} THEN IsDirectHit(found, Quoting(base, quote))
    ELSE IF Quoting(quote, base) # {} THEN IsReversedHit(found, Quoting(quote, base))
    ELSE IF Resolvable(base, quote) THEN IsCrossHit(found, base, quote)
    ELSE found = None

\* C23: in every reachable state of the price cache and for every pair of
\* currencies, get_price_with_source(base, quote) is the blank identity
\* with no sources when base = quote; the stored price with no sources
\* when an instrument quotes (base, quote); the reversed price with the id
\* of the reversed instrument when only (quote, base) is quoted; the cross
\* price with the two leg ids when only a cross resolves; none otherwise.
C23_PriceWithSourceCases ==
    \A base \in Currencies, quote \in Currencies :
        IsPriceWithSource(get_price_with_source(Now.bidask_cache, base, quote), base, quote)

\* the cache holds EURUSD away from its first price and USDCAD, so that
\* USD -> EUR is a reversed hit and CAD -> EUR a cross of two reversed legs
C23_Witness ==
    /\ Has(prices, "EURUSD") /\ Has(prices, "USDCAD")
    /\ prices["EURUSD"].bid > One
    /\ IsReversedHit(get_price_with_source(Now.bidask_cache, "USD", "EUR"), {"EURUSD"})
    /\ IsCrossHit(get_price_with_source(Now.bidask_cache, "CAD", "EUR"), "CAD", "EUR")

\* the conversion factor: the bid of profit_bidask for diff >= 0, its ask
\* otherwise
Factor(p) == IF Diff(p) >= 0 THEN p.profit_bidask.bid ELSE p.profit_bidask.ask

\* diff * lots * contract_size * factor, rounded to the digits of the
\* collateral in the settings (2 if it has none)
ConvertedPl(p, settings) ==
    round_float_to_digits(Diff(p) * p.lots_amount * p.contract_size * Factor(p),
        IF p.collateral \in DOMAIN settings.collaterals
        THEN settings.collaterals[p.collateral].digits ELSE 2)

\* the recalculation computes the pl of the position: its account resolves
\* and its group has settings for one of the ticks that touch it, or it
\* needs a conversion
Recomputed(p, ticks) ==
    /\ ticks # {}
    /\ Resolves(p.account_id)
    /\ (p.quote # p.collateral \/ \E d \in ticks : HasInstrumentSettings(p, d))

\* the last record of the position id in the list
LastRecord(list, id) ==
    list[CHOOSE k \in DOMAIN list :
            /\ list[k].position_id = id
            /\ \A j \in DOMAIN list : list[j].position_id = id => j <= k]

PipsBetween(a, b, digits) == (a - b) \div PipUnits(digits)

\* bid moved up and ask moved down by that many pips
Narrowed(bid, ask, up, down, digits) ==
    <<bid + up * PipUnits(digits), ask - down * PipUnits(digits)>>

MaxClamped(a, spread, returned) ==
    IF spread > a.max_spread
    THEN /\ returned = Narrowed(a.bid, a.ask,
                                (PipsBetween(spread, a.max_spread, a.digits) + 1) \div 2,
                                PipsBetween(spread, a.max_spread, a.digits) \div 2,
                                a.digits)
         /\ calculate_spread(returned[1], returned[2], a.digits) = a.max_spread
    ELSE returned = <<a.bid, a.ask>>

\* C26: calculate_max_spread on a spread (truncated to digits) that exceeds
\* max_spread by D pips raises bid by ceil(D/2) pips and lowers ask by
\* floor(D/2) pips, so that the resulting spread is max_spread exactly; a
\* spread of at most max_spread, negative ones included, leaves bid and ask
\* unchanged.
C26_MaxSpreadClamp ==
    lastCall.op = "calculate_max_spread" =>
        MaxClamped(lastCall.arg,
                   calculate_spread(lastCall.arg.bid, lastCall.arg.ask, lastCall.arg.digits),
                   result)

\* a spread three pips over the bound was narrowed: two pips by bid, one by ask
C26_Witness ==
    /\ lastCall.op = "calculate_max_spread"
    /\ calculate_spread(lastCall.arg.bid, lastCall.arg.ask, lastCall.arg.digits)
           = lastCall.arg.max_spread + 3 * PipUnits(lastCall.arg.digits)
    /\ result[1] = lastCall.arg.bid + 2 * PipUnits(lastCall.arg.digits)
    /\ result[2] = lastCall.arg.ask - PipUnits(lastCall.arg.digits)

MinClamped(a, spread, returned) ==
    IF spread < a.min_spread
    THEN /\ returned = Narrowed(a.bid, a.ask,
                                -((PipsBetween(a.min_spread, spread, a.digits) + 1) \div 2),
                                -(PipsBetween(a.min_spread, spread, a.digits) \div 2),
                                a.digits)
         /\ calculate_spread(returned[1], returned[2], a.digits) = a.min_spread
    ELSE returned = <<a.bid, a.ask>>

\* C27 as stated: calculate_min_spread on a spread (truncated to digits)
\* below min_spread by D pips, negative spreads included, lowers bid by
\* ceil(D/2) pips and raises ask by floor(D/2) pips, so that the resulting
\* spread is min_spread exactly; a spread of at least min_spread leaves bid
\* and ask unchanged.
C27_MinSpreadClamp ==
    lastCall.op = "calculate_min_spread" =>
        MinClamped(lastCall.arg,
                   calculate_spread(lastCall.arg.bid, lastCall.arg.ask, lastCall.arg.digits),
                   result)
\* ask - bid is not negative, or is a whole number of pips
MeasuredExactly(a) ==
    \/ a.ask >= a.bid
    \/ (a.ask - a.bid) % PipUnits(a.digits) = 0

MinClampedAmended(a, spread, returned) ==
    IF spread < a.min_spread
    THEN /\ returned = Narrowed(a.bid, a.ask,
                                -((PipsBetween(a.min_spread, spread, a.digits) + 1) \div 2),
                                -(PipsBetween(a.min_spread, spread, a.digits) \div 2),
                                a.digits)
         /\ MeasuredExactly(a) =>
                calculate_spread(returned[1], returned[2], a.digits) = a.min_spread
         /\ calculate_spread(returned[1], returned[2], a.digits)
                \in {a.min_spread - PipUnits(a.digits), a.min_spread}
    ELSE returned = <<a.bid, a.ask>>

\* C27 amended: the moves of bid and ask are as stated; the resulting spread
\* is min_spread exactly when ask - bid is not negative or is a whole number
\* of pips, and otherwise min_spread or one pip less.
C27_MinSpreadClampAmended ==
    lastCall.op = "calculate_min_spread" =>
        MinClampedAmended(lastCall.arg,
                          calculate_spread(lastCall.arg.bid, lastCall.arg.ask,
                                           lastCall.arg.digits),
                          result)

\* an inverted market on the grid, three pips under the bound, was widened:
\* two pips by bid, one by ask
C27_Witness ==
    /\ lastCall.op = "calculate_min_spread"
    /\ lastCall.arg.ask < lastCall.arg.bid
    /\ calculate_spread(lastCall.arg.bid, lastCall.arg.ask, lastCall.arg.digits)
           = lastCall.arg.min_spread - 3 * PipUnits(lastCall.arg.digits)
    /\ result[1] = lastCall.arg.bid - 2 * PipUnits(lastCall.arg.digits)
    /\ result[2] = lastCall.arg.ask + PipUnits(lastCall.arg.digits)
\* the spread of a shaped price lies within the bounds of the settings
WithinBounds(shaped, settings) ==
    /\ calculate_spread(shaped[1], shaped[2], settings.digits)
           >= Unwrap(Unwrap(settings.markup_settings).min_spread)
    /\ calculate_spread(shaped[1], shaped[2], settings.digits)
           <= Unwrap(Unwrap(settings.markup_settings).max_spread)

\* C25 as stated: calculate_bidask on a price of the pip grid with positive
\* raw spread, under any settings with both bounds set and
\* min_spread <= max_spread, returns a price whose truncated spread lies
\* within [min_spread, max_spread].
C25_SpreadWithinBounds ==
    (/\ lastCall.op = "calculate_bidask"
     /\ lastCall.arg.bidask.ask > lastCall.arg.bidask.bid)
        => WithinBounds(result, lastCall.arg.settings)

\* markups and bounds are whole numbers of pips
OnPipGrid(markup, digits) ==
    /\ markup.markup_bid % PipUnits(digits) = 0
    /\ markup.markup_ask % PipUnits(digits) = 0
    /\ Unwrap(markup.min_spread) % PipUnits(digits) = 0
    /\ Unwrap(markup.max_spread) % PipUnits(digits) = 0

\* C25 amended: the same, for settings whose markups and bounds are whole
\* numbers of pips.
C25_SpreadWithinBoundsOnGrid ==
    (/\ lastCall.op = "calculate_bidask"
     /\ lastCall.arg.bidask.ask > lastCall.arg.bidask.bid
     /\ OnPipGrid(Unwrap(lastCall.arg.settings.markup_settings),
                  lastCall.arg.settings.digits))
        => WithinBounds(result, lastCall.arg.settings)

\* a price the markup inverted was widened to the lower bound by the min
\* clamp, the max clamp having left it alone
C25_Witness ==
    /\ lastCall.op = "calculate_bidask"
    /\ lastCall.arg.bidask.ask > lastCall.arg.bidask.bid
    /\ OnPipGrid(Unwrap(lastCall.arg.settings.markup_settings),
                 lastCall.arg.settings.digits)
    /\ lastCall.arg.bidask.ask + Unwrap(lastCall.arg.settings.markup_settings).markup_ask
           < lastCall.arg.bidask.bid
               + Unwrap(lastCall.arg.settings.markup_settings).markup_bid
    /\ Unwrap(Unwrap(lastCall.arg.settings.markup_settings).min_spread) > 0
    /\ result[2] - result[1]
           = Unwrap(Unwrap(lastCall.arg.settings.markup_settings).min_spread)

\* a price wider than the upper bound was narrowed to it
C25_WitnessNarrowed ==
    /\ lastCall.op = "calculate_bidask"
    /\ OnPipGrid(Unwrap(lastCall.arg.settings.markup_settings),
                 lastCall.arg.settings.digits)
    /\ lastCall.arg.bidask.ask - lastCall.arg.bidask.bid
           > Unwrap(Unwrap(lastCall.arg.settings.markup_settings).max_spread)
    /\ Unwrap(lastCall.arg.settings.markup_settings).markup_bid = 0
    /\ Unwrap(lastCall.arg.settings.markup_settings).markup_ask = 0
    /\ result[2] - result[1]
           = Unwrap(Unwrap(lastCall.arg.settings.markup_settings).max_spread)
\* C30 as stated: reverse(reverse(x)) equals x in every field, for every x
\* with non-zero bid and ask.
C30_ReverseInvolution ==
    (/\ lastCall.op = "reverse"
     /\ lastCall.arg.bid # 0
     /\ lastCall.arg.ask # 0)
        => reverse(result) = lastCall.arg

\* 1 / v and 1 / (1 / v) are computed without rounding
ExactReciprocal(v) ==
    /\ v # 0
    /\ (One * One) % v = 0
    /\ (One * One) % Recip(v) = 0

TwiceReversed(x, twice) ==
    /\ twice.base = x.base
    /\ twice.quote = x.quote
    /\ twice.id = "REVERSE-REVERSE-" \o x.id
    /\ twice.id # x.id
    /\ ExactReciprocal(x.bid) => twice.bid = x.bid
    /\ ExactReciprocal(x.ask) => twice.ask = x.ask

\* C30 amended: reverse(reverse(x)) has the base and quote of x, the id of x
\* behind two REVERSE- prefixes, and the bid and ask of x where the
\* reciprocals are exact.
C30_ReverseTwice ==
    (/\ lastCall.op = "reverse"
     /\ lastCall.arg.bid # 0
     /\ lastCall.arg.ask # 0)
        => /\ result.base = lastCall.arg.quote
           /\ result.quote = lastCall.arg.base
           /\ TwiceReversed(lastCall.arg, reverse(result))

\* EURUSD at (0.5, 1.0) reversed to (1.0, 2.0) of USD/EUR, and back
C30_Witness ==
    /\ lastCall.op = "reverse"
    /\ lastCall.arg = Bidask("EURUSD", One \div 2, One, "EUR", "USD")
    /\ result = Bidask("REVERSE-EURUSD", One, 2 * One, "USD", "EUR")
    /\ reverse(result) = Bidask("REVERSE-REVERSE-EURUSD", One \div 2, One, "EUR", "USD")
\* update_bidask was applied to a tick of a subscribed instrument that is
\* quoted (collateral, quote), the inverse of the conversion the position
\* needs, under settings that know the instrument
InverseHit(a) ==
    /\ a.bidask.id \in Range(a.position.profit_price_assets_subscriptions)
    /\ a.bidask.base = a.position.collateral
    /\ a.bidask.quote = a.position.quote
    /\ Has(a.settings.instruments, a.bidask.id)

\* the settings of the tick's instrument applied to price
ShapedAs(a, price) ==
    WithPrices(price, calculate_bidask(a.settings.instruments[a.bidask.id], price))

\* C28 as stated: on an inverse hit the conversion price is the incoming
\* bidask reversed first, with the markup and spread settings of the
\* incoming instrument applied to the reversed price.
C28_ReverseThenSettings ==
    (lastCall.op = "update_bidask" /\ InverseHit(lastCall.arg))
        => result.profit_bidask = ShapedAs(lastCall.arg, reverse(lastCall.arg.bidask))

\* C28 amended: on an inverse hit the conversion price is the incoming
\* bidask with the markup and spread settings of the incoming instrument
\* applied first, and reversed after.
C28_SettingsThenReverse ==
    (lastCall.op = "update_bidask" /\ InverseHit(lastCall.arg))
        => result.profit_bidask = reverse(ShapedAs(lastCall.arg, lastCall.arg.bidask))

\* an inverse hit under a markup for which the two orders differ
C28_Witness ==
    /\ lastCall.op = "update_bidask"
    /\ InverseHit(lastCall.arg)
    /\ IsSome(lastCall.arg.settings.instruments[lastCall.arg.bidask.id].markup_settings)
    /\ result.profit_bidask = reverse(ShapedAs(lastCall.arg, lastCall.arg.bidask))
    /\ result.profit_bidask # ShapedAs(lastCall.arg, reverse(lastCall.arg.bidask))

\* the markup of the tick's instrument, and whether it sets a spread bound
MarkupOf(a) == Unwrap(a.settings.instruments[a.bidask.id].markup_settings)
Marked(a) == IsSome(a.settings.instruments[a.bidask.id].markup_settings)
Bounded(a) == IsSome(MarkupOf(a).min_spread) \/ IsSome(MarkupOf(a).max_spread)

MarkedUpThenReversed(a, profit_bidask) ==
    /\ profit_bidask.bid = Recip(a.bidask.ask + MarkupOf(a).markup_ask)
    /\ profit_bidask.ask = Recip(a.bidask.bid + MarkupOf(a).markup_bid)

\* C29 as stated: on an inverse hit under settings with a markup,
\* profit_bidask.bid = 1 / (tick.ask + markup_ask) and
\* profit_bidask.ask = 1 / (tick.bid + markup_bid), the markup being that of
\* the incoming instrument id.
C29_MarkupBeforeReversal ==
    (lastCall.op = "update_bidask" /\ InverseHit(lastCall.arg) /\ Marked(lastCall.arg))
        => MarkedUpThenReversed(lastCall.arg, result.profit_bidask)

\* C29 for settings that set no spread bound: the same, and the price
\* carries the REVERSE- id while the settings were those of the incoming id.
C29_MarkupBeforeReversalUnbounded ==
    (/\ lastCall.op = "update_bidask"
     /\ InverseHit(lastCall.arg)
     /\ Marked(lastCall.arg)
     /\ ~Bounded(lastCall.arg))
        => /\ MarkedUpThenReversed(lastCall.arg, result.profit_bidask)
           /\ result.profit_bidask.id = "REVERSE-" \o lastCall.arg.bidask.id
           /\ ~Has(lastCall.arg.settings.instruments, result.profit_bidask.id)

\* an inverse hit under a markup of two pips on ask and no bound: the
\* conversion bid is 1 / (ask + 0.2), not 1 / ask
C29_Witness ==
    /\ lastCall.op = "update_bidask"
    /\ InverseHit(lastCall.arg)
    /\ Marked(lastCall.arg)
    /\ ~Bounded(lastCall.arg)
    /\ MarkupOf(lastCall.arg).markup_ask = 2
    /\ result.profit_bidask.bid = Recip(lastCall.arg.bidask.ask + 2)
    /\ result.profit_bidask.bid # Recip(lastCall.arg.bidask.ask)
\* the buy and the sell position of a pair
BuyOf(ps) == CHOOSE p \in ps : p.is_buy
SellOf(ps) == CHOOSE p \in ps : ~p.is_buy

\* the leverage the margin is computed at
EffectiveLeverage(a) ==
    IF a.settings.max_leverage = None THEN a.account.leverage
    ELSE IF Unwrap(a.settings.max_leverage) < a.account.leverage
         THEN Unwrap(a.settings.max_leverage) ELSE a.account.leverage

\* hedged_volume * contract_size * hedged_price / leverage * hedge_coef for
\* a buy b and a sell s of equal lots, in money units
HedgedMargin(a, b, s) ==
    (b.lots_amount * b.contract_size
        * (b.margin_bidask.ask * b.lots_amount + s.margin_bidask.bid * s.lots_amount)
        * (IF a.hedge_coef = None THEN One ELSE Unwrap(a.hedge_coef)))
    \div ((b.lots_amount + s.lots_amount) * EffectiveLeverage(a))

\* C31: for one instrument with one buy and one sell position of equal
\* lots, the instrument margin is hedged_volume x contract_size x
\* hedged_price / leverage x hedge_coef, hedged_price being the
\* volume-weighted mean of the two margin prices, hedge_coef defaulting to 1,
\* leverage being the smaller of the account's and the instrument's
\* max_leverage when set; the not-hedged part adds nothing.
C31_HedgedMargin ==
    (/\ lastCall.op = "calculate_specific_instrument_margin_and_gross_pl"
     /\ BuyOf(lastCall.arg.positions).lots_amount
            = SellOf(lastCall.arg.positions).lots_amount)
        => result[1] = HedgedMargin(lastCall.arg, BuyOf(lastCall.arg.positions),
                                    SellOf(lastCall.arg.positions))

\* two lots each side under a hedge coefficient of a half and a max_leverage
\* below the account's leverage: a margin that is not zero
C31_Witness ==
    /\ lastCall.op = "calculate_specific_instrument_margin_and_gross_pl"
    /\ BuyOf(lastCall.arg.positions).lots_amount = 2
    /\ SellOf(lastCall.arg.positions).lots_amount = 2
    /\ lastCall.arg.hedge_coef = Some(One \div 2)
    /\ lastCall.arg.settings.max_leverage = Some(1)
    /\ lastCall.arg.account.leverage = 4
    /\ result[1] > 0
    /\ result[1] = HedgedMargin(lastCall.arg, BuyOf(lastCall.arg.positions),
                                SellOf(lastCall.arg.positions))
\* no key of the four indices maps to an empty set
NoEmptySet(ix) ==
    \A f \in DOMAIN ix : \A k \in DOMAIN ix[f] : ix[f][k] # {}

\* C32: add_index of a position whose id is not yet indexed followed by
\* remove_indexes of it gives back the four indices as they were: the id is
\* in no set and no key maps to an empty set.
C32_AddRemoveRestoresIndices ==
    lastCall.op = "add_index, remove_indexes" =>
        /\ result.removed = lastCall.arg.indexes
        /\ lastCall.arg.position.id \notin IndexedIds(result.removed)
        /\ NoEmptySet(result.added)
        /\ NoEmptySet(result.removed)

\* a position added next to another of the same trader and instrument, with
\* subscriptions the other has not: on removal the shared keys stay and the
\* subscription keys are dropped
C32_Witness ==
    /\ lastCall.op = "add_index, remove_indexes"
    /\ lastCall.arg.position.id \in result.added.trader_id_index[lastCall.arg.position.trader_id]
    /\ Has(lastCall.arg.indexes.trader_id_index, lastCall.arg.position.trader_id)
    /\ Has(result.removed.trader_id_index, lastCall.arg.position.trader_id)
    /\ Has(result.added.profit_price_subscription_indexes, "USDCAD")
    /\ ~Has(result.removed.profit_price_subscription_indexes, "USDCAD")
    /\ result.removed = lastCall.arg.indexes
\* the bid and ask of a bidask as a pair
Legs2(b) == <<b.bid, b.ask>>

\* C33: the in-place shaping leaves in the bidask what the value-returning
\* shaping returns: mutate_bidask what calculate_bidask returns,
\* apply_max_spread what calculate_max_spread returns, apply_min_spread what
\* calculate_min_spread returns, and none of them touches id, base or quote.
C33_InPlaceAgrees ==
    /\ lastCall.op = "mutate_bidask" =>
           /\ Legs2(result) = calculate_bidask(lastCall.arg.settings, lastCall.arg.bidask)
           /\ WithPrices(result, Legs2(lastCall.arg.bidask)) = lastCall.arg.bidask
    /\ lastCall.op = "apply_max_spread" =>
           /\ Legs2(result) = calculate_max_spread(lastCall.arg.bidask.bid,
                                                   lastCall.arg.bidask.ask,
                                                   lastCall.arg.max_spread,
                                                   lastCall.arg.digits)
           /\ WithPrices(result, Legs2(lastCall.arg.bidask)) = lastCall.arg.bidask
    /\ lastCall.op = "apply_min_spread" =>
           /\ Legs2(result) = calculate_min_spread(lastCall.arg.bidask.bid,
                                                   lastCall.arg.bidask.ask,
                                                   lastCall.arg.min_spread,
                                                   lastCall.arg.digits)
           /\ WithPrices(result, Legs2(lastCall.arg.bidask)) = lastCall.arg.bidask

\* mutate_bidask under a lower bound above the upper one moved both legs
C33_Witness ==
    /\ lastCall.op = "mutate_bidask"
    /\ IsSome(lastCall.arg.settings.markup_settings)
    /\ IsSome(Unwrap(lastCall.arg.settings.markup_settings).min_spread)
    /\ IsSome(Unwrap(lastCall.arg.settings.markup_settings).max_spread)
    /\ Unwrap(Unwrap(lastCall.arg.settings.markup_settings).min_spread)
           > Unwrap(Unwrap(lastCall.arg.settings.markup_settings).max_spread)
    /\ result.bid # lastCall.arg.bidask.bid
           + Unwrap(lastCall.arg.settings.markup_settings).markup_bid
    /\ result.ask # lastCall.arg.bidask.ask
           + Unwrap(lastCall.arg.settings.markup_settings).markup_ask
    /\ Legs2(result) = calculate_bidask(lastCall.arg.settings, lastCall.arg.bidask)
\* the position update records the last operation returned
ReturnedPositionUpdates == Range(UnwrapOrDefault(result.position_updates))

\* C34: every position update record that recalculate_accordint_to_updates
\* returns carries the gross_pl the position has in the cache when the call
\* returns, so all records of one position carry the same gross_pl.
C34_RecordsCarryFinalPl ==
    lastCall.op = RecalculateOp =>
        \A u \in ReturnedPositionUpdates :
            Has(positions, u.position_id)
                => u.gross_pl = get_gross_pl(positions[u.position_id])
\* the positions, their indices and the accounts an operation leaves
StateLeft(ran) == <<ran[1].positions_cache, ran[1].accounts>>

\* what recalculate_accordint_to_updates leaves when the dirty ids are
\* drained in the order updated_prices and the index sets iterate in ord
RecalculatedIn(updated_prices, ord) ==
    StateLeft(recalculate_accordint_to_updates(Now, updated_prices, ord))

\* C35: from any state, any two processing orders of the drained price ids
\* (and of the position ids under each) leave the same positions and the
\* same accounts: every recalculation step, whatever its orders, leaves
\* what the recalculation in one fixed order leaves.
C35_OrderIndependent ==
    [][lastCall'.op = RecalculateOp
          => <<Now'.positions_cache, Now'.accounts>>
                 = RecalculatedIn(CHOOSE o \in Orders(updated_assets) : TRUE,
                                  CHOOSE o \in Orders(PositionIds) : TRUE)]_vars

\* a recalculation of two dirty ids that touched one position through both,
\* the records of the two passes differing
C35_Witness ==
    /\ lastCall.op = RecalculateOp
    /\ Len(lastCall.arg) = 2
    /\ \E u \in ReturnedPositionUpdates, v \in ReturnedPositionUpdates :
          /\ u.position_id = v.position_id
          /\ u.gross_pl # v.gross_pl
\* the position map and its four indices
PositionVars ==
    <<positions, trader_id_index, account_id_index, asset_pair_index,
      profit_price_subscription_indexes>>

\* C36: when insert_or_update_position or remove_position returns
\* AccountNotFound, the position map and its four indices are as before the
\* call.
C36_AccountNotFoundKeepsPositions ==
    [][(/\ lastCall'.op \in {"insert_or_update_position", "remove_position"}
        /\ result'.err = "AccountNotFound")
          => UNCHANGED PositionVars]_vars

\* the account id a position call is about: of the position given, or of
\* the stored position of the id given
AccountOfCall(call) ==
    IF call.op = "insert_or_update_position" THEN call.arg.account_id
    ELSE positions[call.arg].account_id

\* C37: insert_or_update_position and remove_position return AccountNotFound
\* only when the account of the position is absent from the account cache;
\* for a stored account they return that account's update.
C37_AccountNotFoundOnlyWhenAbsent ==
    [][(/\ lastCall'.op \in {"insert_or_update_position", "remove_position"}
        /\ result'.err \notin {"ProfitPriceNotFond", "PositionNotFound"})
          => IF Has(accounts, AccountOfCall(lastCall'))
             THEN /\ result'.err = ""
                  /\ IsSome(result'.account_updates)
                  /\ \A u \in Range(Unwrap(result'.account_updates)) :
                         u.account_id = AccountOfCall(lastCall')
             ELSE result'.err = "AccountNotFound"]_vars

\* C38: when insert_or_update_account returns AccountSettingsNotFound, the
\* account cache, its trader index and the account-to-group mapping of the
\* settings cache are unchanged.
C38_SettingsNotFoundKeepsAccounts ==
    [][(/\ lastCall'.op = "insert_or_update_account"
        /\ result'.err = "AccountSettingsNotFound")
          => UNCHANGED <<accounts, trader_index, accounts_mapping>>]_vars
\* C39: handle_new_price changes the price cache and the dirty set only: no
\* position, no index, no account, no settings and no mapping changes, and
\* the call returns no update record.
C39_TickTouchesPricesOnly ==
    [][lastCall'.op = "handle_new_price"
          => /\ UNCHANGED PositionVars
             /\ UNCHANGED <<accounts, trader_index, accounts_mapping, groups>>
             /\ result'.account_updates = None
             /\ result'.position_updates = None]_vars

\* a tick moved the price of an instrument that a stored position is on,
\* and a full recalculation would change the positions and the accounts
C39_Witness ==
    /\ lastCall.op = "handle_new_price"
    /\ \E id \in DOMAIN positions : positions[id].asset_pair \in updated_assets
    /\ recalculate_all(Now).positions_cache.positions # positions
    /\ recalculate_all(Now).accounts.accounts # accounts
\* both direction indices of the cache c hold id for the pair (b, q)
IndexedBothWays(c, b, q, id) ==
    /\ Has(c.base_quote_index, b)
    /\ Has(c.base_quote_index[b], q)
    /\ c.base_quote_index[b][q] = id
    /\ Has(c.quote_base_index, q)
    /\ Has(c.quote_base_index[q], b)
    /\ c.quote_base_index[q][b] = id

\* the price, if any, is of the pair (b, q)
OfPair(price, b, q) ==
    IsSome(price) => (Unwrap(price).base = b /\ Unwrap(price).quote = q)

\* the direction indices agree with the price map, and the lookups of two
\* different currencies return prices of the pair asked for
IndicesAgree(c) ==
    \A b \in Currencies, q \in Currencies :
        /\ \A id \in {t.id : t \in PairTicks} :
               IndexedBothWays(c, b, q, id)
                   <=> (/\ Has(c.prices, id)
                        /\ c.prices[id].base = b
                        /\ c.prices[id].quote = q)
        /\ b # q => OfPair(get_price(c, b, q), b, q)
        /\ b # q => (IsSome(get_price_with_source(c, b, q))
                        => OfPair(Some(Unwrap(get_price_with_source(c, b, q))[1]), b, q))

\* C40 as stated: after any sequence of handle_new calls with arbitrary
\* ids, bases and quotes the direction indices agree with the price map and
\* get_price and get_price_with_source return no price of another pair.
C40_IndicesAgree ==
    lastCall.op = "handle_new" => IndicesAgree(result)

\* every id comes with one pair and every pair with one id
OnePairPerId(ticks) ==
    \A i \in DOMAIN ticks, j \in DOMAIN ticks :
        (ticks[i].id = ticks[j].id)
            <=> (ticks[i].base = ticks[j].base /\ ticks[i].quote = ticks[j].quote)

\* C40 amended: the same, for sequences in which an id always comes with
\* the same base and quote and no two ids come with the same base and quote.
C40_IndicesAgreeOnePairPerId ==
    (lastCall.op = "handle_new" /\ OnePairPerId(lastCall.arg))
        => IndicesAgree(result)

\* two ids, one pair each, the second the reverse of the first: each is
\* found directly under its own pair
C40_Witness ==
    /\ lastCall.op = "handle_new"
    /\ OnePairPerId(lastCall.arg)
    /\ Len(lastCall.arg) = 2
    /\ lastCall.arg[1].id # lastCall.arg[2].id
    /\ lastCall.arg[1].base = lastCall.arg[2].quote
    /\ lastCall.arg[1].quote = lastCall.arg[2].base
    /\ get_base_quote(result, lastCall.arg[1].base, lastCall.arg[1].quote)
           = Some(lastCall.arg[1])
    /\ get_base_quote(result, lastCall.arg[2].base, lastCall.arg[2].quote)
           = Some(lastCall.arg[2])
====
